---- MODULE Spec2Model ----
(***************************************************************************)
(* Model of doc-agent-server: the authorization gate (middleware and       *)
(* AuthorizationUtils), the entity store operations of MongoService that   *)
(* the AI tools call, the tool executor (AIToolsService.executeTool) and   *)
(* the assistant request handler (EnhancedAIController.processAIRequest    *)
(* with OpenAIService.processWithTools / parseOpenAIResponse).             *)
(***************************************************************************)
EXTENDS Integers, Sequences, FiniteSets, TLC

(***************************************************************************)
(* Bounds of the model.                                                    *)
(***************************************************************************)
\* Longest list of tool calls the provider proposes in one response.
MaxToolCalls == 2

(***************************************************************************)
(* Value domains.                                                          *)
(***************************************************************************)
\* req.user?.id is undefined when no user is attached to the request.
NoUser == "no_user"
Users == {"u1", "u2"}

\* A request parameter that is absent (undefined).
NoId == "undefined"
\* A well-formed id that names no document, and a string that is not an ObjectId.
GhostId == "ghost"
BadId == "bad"

\* Absence of a membership entry (members.find(...) returned undefined).
NoRole == "no_role"
\* types/index.ts: organization and project member roles.
OrgRoles == {"owner", "admin", "member", "viewer"}
ProjectRoles == {"owner", "editor", "viewer"}
Visibilities == {"public", "private", "team"}

OrgIds == {"o1"}
ProjectIds == {"p1", "p2"}
ColumnIds == {"c1", "c2"}
TaskIds == {"t1", "t2", "t3", "t4"}
AgentIds == {"a1"}

\* The requiredRoles arguments the checks are exercised with; the routes use
\* [], ['owner','editor'], ['owner'] and ['owner','admin'].
RequiredRolesChoices == {{}, {"viewer"}, {"owner", "editor"}, {"owner", "admin"}}

VARIABLES
  organizations,  \* organizations collection: id -> [isActive, members]
  projects,       \* projects collection: id -> [isActive, organizationId, visibility, members]
  columns,        \* columns collection: id -> [exists, projectId, visibility, createdBy, title, name, position]
  tasks,          \* tasks collection: id -> [exists, projectId, columnId, position, title,
                  \*                          assignees, agentHistory]
  agents,         \* agents collection: id -> [isActive, organizationId, isPublic]
  authz,          \* the last access check made and its outcome
  req,            \* the assistant request being handled
  pc,             \* the phase the assistant request is in
  intent,         \* primary intent returned by analyzeIntent
  providerCalls,  \* number of calls made to the model provider
  providerError,  \* message of the error the completion call failed with, or ""
  proposed,       \* tool_calls of the provider's response
  tokens,         \* usage.total_tokens of the provider's response
  idx,            \* position of parseOpenAIResponse's loop in proposed
  running,        \* calls whose executeTool was started and has not returned
  toolCalls,      \* parseOpenAIResponse's toolCalls list
  message,        \* annotations appended to the message text, in order
  execLog,        \* executeTool invocations: call, tool outcome, result
  response,       \* the HTTP response written, once there is one
  snapshot,       \* tasks and columns as they were when the request arrived
  intentCall,     \* a call of IntentService.analyzeIntent: the input and what the provider does
  analysis,       \* what that call of analyzeIntent gave its caller
  pending,        \* task operations between two of their awaits
  overlapped,     \* some task operation ran while another was in flight
  lastStep,       \* the step of a task operation made last
  prevStep,       \* the step made before it
  started,        \* number of task operations started
  roleCall,       \* a call of AuthorizationUtils.hasMinimumRole: its two arguments
  roleResult,     \* what the call returned, once it has
  toolRequest,    \* a call of a tool's execute: the tool and its parameters
  toolOutcome,    \* what the call returned or threw, once it has
  mcpPc,          \* MCPClient: where initialize is
  mcpProcess,     \* MCPClient.process: "null", or the child process "running" or "exited"
  connected,      \* MCPClient.connected
  requestId,      \* MCPClient.requestId
  pendingRequests,\* MCPClient.pendingRequests: the ids waiting for a response
  stdin,          \* the request ids written to the server's stdin, in order
  rejected,       \* number of sendRequest calls that threw 'MCP client not connected'
  outputs,        \* number of chunks the server wrote to its stdout
  moveReq,        \* a request to POST /tasks/:taskId/move: caller, params and body
  movePc,         \* where the handling of the move request is
  moveColumn,     \* the column document TaskController.moveTask read
  columnSettings, \* columns' settings: id -> [autoRun, autoRunAgent]
  timer,          \* the setTimeout of the auto-run and the runAgent it starts
  resWrites,      \* every call of res.json on the request's response object, in order
  sentResponses,  \* the responses that went out to the client
  unhandled       \* number of promises that rejected with no handler

store == <<organizations, projects, columns, tasks, agents>>
assistant == <<req, pc, intent, providerCalls, providerError, proposed, tokens, idx, running,
               toolCalls, message, execLog, response, snapshot>>
direct == <<intentCall, analysis, pending, overlapped, lastStep, prevStep, started>>
roles == <<roleCall, roleResult>>
resolve == <<toolRequest, toolOutcome>>
mcp == <<mcpPc, mcpProcess, connected, requestId, pendingRequests, stdin, rejected, outputs>>
move == <<moveReq, movePc, moveColumn, columnSettings, timer, resWrites, sentResponses, unhandled>>
other == <<roles, resolve, mcp, move>>
vars == <<organizations, projects, columns, tasks, agents, authz,
          req, pc, intent, providerCalls, providerError, proposed, tokens, idx, running,
          toolCalls, message, execLog, response, snapshot, intentCall, analysis,
          pending, overlapped, lastStep, prevStep, started, roleCall, roleResult,
          toolRequest, toolOutcome,
          mcpPc, mcpProcess, connected, requestId, pendingRequests, stdin, rejected, outputs,
          moveReq, movePc, moveColumn, columnSettings, timer, resWrites, sentResponses, unhandled>>

(***************************************************************************)
(* MongoService readers.  Each returns "throw" (invalid id format),        *)
(* "null" (no active document) or "ok".                                    *)
(***************************************************************************)
\* ObjectId.isValid(id)
ObjectIdIsValid(id) == id \notin {BadId, NoId}

getOrganization(organizationId) ==
  IF ~ObjectIdIsValid(organizationId) THEN "throw"
  ELSE IF organizationId \in OrgIds /\ organizations[organizationId].isActive THEN "ok"
  ELSE "null"

getProject(projectId) ==
  IF ~ObjectIdIsValid(projectId) THEN "throw"
  ELSE IF projectId \in ProjectIds /\ projects[projectId].isActive THEN "ok"
  ELSE "null"

getAgent(agentId) ==
  IF ~ObjectIdIsValid(agentId) THEN "throw"
  ELSE IF agentId \in AgentIds /\ agents[agentId].isActive THEN "ok"
  ELSE "null"

\* columns and tasks are hard-deleted: no isActive filter.
getColumn(columnId) ==
  IF ~ObjectIdIsValid(columnId) THEN "throw"
  ELSE IF columnId \in ColumnIds /\ columns[columnId].exists THEN "ok"
  ELSE "null"

getTask(taskId) ==
  IF ~ObjectIdIsValid(taskId) THEN "throw"
  ELSE IF taskId \in TaskIds /\ tasks[taskId].exists THEN "ok"
  ELSE "null"

\* members.find(member => member.userId === userId): the role of the entry
\* found, or NoRole when find returns undefined.  A member list is kept as the
\* function from user to the role of the user's first entry.
FindMember(members, userId) ==
  IF userId \in DOMAIN members THEN members[userId] ELSE NoRole


(***************************************************************************)
(* Authorization middleware (middleware/authorization.ts).  A middleware   *)
(* either calls next() (allowed, status 0) or writes one error response.   *)
(* role is the project (or, for agents and organizations, organization)    *)
(* membership role attached to the request, NoRole when none was found.    *)
(***************************************************************************)
Respond(status, error) == [allowed |-> FALSE, status |-> status, error |-> error, role |-> NoRole]
CallNext(role) == [allowed |-> TRUE, status |-> 0, error |-> "", role |-> role]

RequiredRolesError == "Access denied: Required role(s)"
AuthorizationCheckFailed == Respond(500, "Authorization check failed")

requireOrganizationAccess(requiredRoles, userId, organizationId) ==
  IF userId = NoUser THEN Respond(401, "User not authenticated")
  ELSE IF organizationId = NoId THEN Respond(400, "Organization ID is required")
  ELSE IF getOrganization(organizationId) = "throw" THEN AuthorizationCheckFailed
  ELSE IF getOrganization(organizationId) = "null" THEN Respond(404, "Organization not found")
  ELSE LET membership == FindMember(organizations[organizationId].members, userId) IN
    IF membership = NoRole
      THEN Respond(403, "Access denied: You are not a member of this organization")
    ELSE IF requiredRoles # {} /\ membership \notin requiredRoles
      THEN Respond(403, RequiredRolesError)
    ELSE CallNext(membership)

\* requireProjectAccess without the rule that a private project admits only
\* its members.
requireProjectAccess_noPrivateRule(requiredRoles, userId, projectId) ==
  IF userId = NoUser THEN Respond(401, "User not authenticated")
  ELSE IF projectId = NoId THEN Respond(400, "Project ID is required")
  ELSE IF getProject(projectId) = "throw" THEN AuthorizationCheckFailed
  ELSE IF getProject(projectId) = "null" THEN Respond(404, "Project not found")
  ELSE LET project == projects[projectId] IN
    IF getOrganization(project.organizationId) = "throw" THEN AuthorizationCheckFailed
    ELSE IF getOrganization(project.organizationId) = "null" THEN Respond(404, "Organization not found")
    ELSE LET orgMembership == FindMember(organizations[project.organizationId].members, userId)
             projectMembership == FindMember(project.members, userId)
             userRole == IF projectMembership # NoRole THEN projectMembership ELSE "viewer" IN
      IF orgMembership = NoRole
        THEN Respond(403, "Access denied: You are not a member of the organization")
      ELSE IF requiredRoles # {} /\ userRole \notin requiredRoles
        THEN Respond(403, RequiredRolesError)
      ELSE CallNext(projectMembership)

requireProjectAccess(requiredRoles, userId, projectId) ==
  IF userId = NoUser THEN Respond(401, "User not authenticated")
  ELSE IF projectId = NoId THEN Respond(400, "Project ID is required")
  ELSE IF getProject(projectId) = "throw" THEN AuthorizationCheckFailed
  ELSE IF getProject(projectId) = "null" THEN Respond(404, "Project not found")
  ELSE LET project == projects[projectId] IN
    IF getOrganization(project.organizationId) = "throw" THEN AuthorizationCheckFailed
    ELSE IF getOrganization(project.organizationId) = "null" THEN Respond(404, "Organization not found")
    ELSE LET orgMembership == FindMember(organizations[project.organizationId].members, userId)
             projectMembership == FindMember(project.members, userId)
             \* projectMembership?.role || 'viewer'
             userRole == IF projectMembership # NoRole THEN projectMembership ELSE "viewer" IN
      IF orgMembership = NoRole
        THEN Respond(403, "Access denied: You are not a member of the organization")
      ELSE IF project.visibility = "private" /\ projectMembership = NoRole
        THEN Respond(403, "Access denied: This project is private")
      ELSE IF requiredRoles # {} /\ userRole \notin requiredRoles
        THEN Respond(403, RequiredRolesError)
      ELSE CallNext(projectMembership)

requireTaskAccess(requiredRoles, userId, taskId) ==
  IF userId = NoUser THEN Respond(401, "User not authenticated")
  ELSE IF taskId = NoId THEN Respond(400, "Task ID is required")
  ELSE IF getTask(taskId) = "throw" THEN AuthorizationCheckFailed
  ELSE IF getTask(taskId) = "null" THEN Respond(404, "Task not found")
  ELSE LET task == tasks[taskId] IN
    IF getProject(task.projectId) = "throw" THEN AuthorizationCheckFailed
    ELSE IF getProject(task.projectId) = "null" THEN Respond(404, "Project not found")
    ELSE LET project == projects[task.projectId] IN
      IF getOrganization(project.organizationId) = "throw" THEN AuthorizationCheckFailed
      ELSE IF getOrganization(project.organizationId) = "null" THEN Respond(404, "Organization not found")
      ELSE LET orgMembership == FindMember(organizations[project.organizationId].members, userId)
               projectMembership == FindMember(project.members, userId)
               userRole == IF projectMembership # NoRole THEN projectMembership ELSE "viewer" IN
        IF orgMembership = NoRole
          THEN Respond(403, "Access denied: You are not a member of the organization")
        ELSE IF project.visibility = "private" /\ projectMembership = NoRole
          THEN Respond(403, "Access denied: This project is private")
        ELSE IF requiredRoles # {} /\ userRole \notin requiredRoles
          THEN Respond(403, RequiredRolesError)
        ELSE CallNext(projectMembership)

requireColumnAccess(requiredRoles, userId, columnId) ==
  IF userId = NoUser THEN Respond(401, "User not authenticated")
  ELSE IF columnId = NoId THEN Respond(400, "Column ID is required")
  ELSE IF getColumn(columnId) = "throw" THEN AuthorizationCheckFailed
  ELSE IF getColumn(columnId) = "null" THEN Respond(404, "Column not found")
  ELSE LET column == columns[columnId] IN
    IF getProject(column.projectId) = "throw" THEN AuthorizationCheckFailed
    ELSE IF getProject(column.projectId) = "null" THEN Respond(404, "Project not found")
    ELSE LET project == projects[column.projectId] IN
      IF getOrganization(project.organizationId) = "throw" THEN AuthorizationCheckFailed
      ELSE IF getOrganization(project.organizationId) = "null" THEN Respond(404, "Organization not found")
      ELSE LET orgMembership == FindMember(organizations[project.organizationId].members, userId)
               projectMembership == FindMember(project.members, userId)
               userRole == IF projectMembership # NoRole THEN projectMembership ELSE "viewer" IN
        IF orgMembership = NoRole
          THEN Respond(403, "Access denied: You are not a member of the organization")
        ELSE IF project.visibility = "private" /\ projectMembership = NoRole
          THEN Respond(403, "Access denied: This project is private")
        ELSE IF column.visibility = "private" /\ column.createdBy # userId /\ projectMembership = NoRole
          THEN Respond(403, "Access denied: This column is private")
        ELSE IF requiredRoles # {} /\ userRole \notin requiredRoles
          THEN Respond(403, RequiredRolesError)
        ELSE CallNext(projectMembership)

\* requireAgentAccess without the shortcut for public agents.
requireAgentAccess_orgMembersOnly(requiredRoles, userId, agentId) ==
  IF userId = NoUser THEN Respond(401, "User not authenticated")
  ELSE IF agentId = NoId THEN Respond(400, "Agent ID is required")
  ELSE IF getAgent(agentId) = "throw" THEN AuthorizationCheckFailed
  ELSE IF getAgent(agentId) = "null" THEN Respond(404, "Agent not found")
  ELSE LET agent == agents[agentId] IN
    IF getOrganization(agent.organizationId) = "throw" THEN AuthorizationCheckFailed
    ELSE IF getOrganization(agent.organizationId) = "null" THEN Respond(404, "Organization not found")
    ELSE LET orgMembership == FindMember(organizations[agent.organizationId].members, userId) IN
      IF orgMembership = NoRole
        THEN Respond(403, "Access denied: You are not a member of the organization")
      ELSE IF requiredRoles # {} /\ orgMembership \notin requiredRoles
        THEN Respond(403, RequiredRolesError)
      ELSE CallNext(orgMembership)

requireAgentAccess(requiredRoles, userId, agentId) ==
  IF userId = NoUser THEN Respond(401, "User not authenticated")
  ELSE IF agentId = NoId THEN Respond(400, "Agent ID is required")
  ELSE IF getAgent(agentId) = "throw" THEN AuthorizationCheckFailed
  ELSE IF getAgent(agentId) = "null" THEN Respond(404, "Agent not found")
  ELSE LET agent == agents[agentId] IN
    \* a public agent passes before any organization lookup
    IF agent.isPublic THEN CallNext(NoRole)
    ELSE IF getOrganization(agent.organizationId) = "throw" THEN AuthorizationCheckFailed
    ELSE IF getOrganization(agent.organizationId) = "null" THEN Respond(404, "Organization not found")
    ELSE LET orgMembership == FindMember(organizations[agent.organizationId].members, userId) IN
      IF orgMembership = NoRole
        THEN Respond(403, "Access denied: You are not a member of the organization")
      ELSE IF requiredRoles # {} /\ orgMembership \notin requiredRoles
        THEN Respond(403, RequiredRolesError)
      ELSE CallNext(orgMembership)

(***************************************************************************)
(* AuthorizationUtils (utils/authorization.ts).  Every method catches      *)
(* what the store throws and answers hasAccess false.                      *)
(***************************************************************************)
NoAccess(role) == [hasAccess |-> FALSE, role |-> role]
Access(role) == [hasAccess |-> TRUE, role |-> role]

hasOrganizationAccess(organizationId, userId, requiredRoles) ==
  IF getOrganization(organizationId) = "throw" THEN NoAccess(NoRole)
  ELSE IF getOrganization(organizationId) = "null" THEN NoAccess(NoRole)
  ELSE LET membership == FindMember(organizations[organizationId].members, userId) IN
    IF membership = NoRole THEN NoAccess(NoRole)
    ELSE IF requiredRoles # {} /\ membership \notin requiredRoles THEN NoAccess(membership)
    ELSE Access(membership)

\* hasProjectAccess with the organization role standing in for a missing
\* project role.
hasProjectAccess_orgRoleFallback(projectId, userId, requiredRoles) ==
  IF getProject(projectId) = "throw" THEN NoAccess(NoRole)
  ELSE IF getProject(projectId) = "null" THEN NoAccess(NoRole)
  ELSE LET project == projects[projectId]
           orgCheck == hasOrganizationAccess(project.organizationId, userId, {}) IN
    IF ~orgCheck.hasAccess THEN NoAccess(NoRole)
    ELSE LET projectMembership == FindMember(project.members, userId)
             userRole == IF projectMembership # NoRole THEN projectMembership ELSE orgCheck.role IN
      IF project.visibility = "private" /\ projectMembership = NoRole THEN NoAccess(NoRole)
      ELSE IF requiredRoles # {} /\ userRole \notin requiredRoles THEN NoAccess(userRole)
      ELSE Access(userRole)

hasProjectAccess(projectId, userId, requiredRoles) ==
  IF getProject(projectId) = "throw" THEN NoAccess(NoRole)
  ELSE IF getProject(projectId) = "null" THEN NoAccess(NoRole)
  ELSE LET project == projects[projectId]
           orgCheck == hasOrganizationAccess(project.organizationId, userId, {}) IN
    IF ~orgCheck.hasAccess THEN NoAccess(NoRole)
    ELSE LET projectMembership == FindMember(project.members, userId)
             \* projectMembership?.role || 'viewer'
             userRole == IF projectMembership # NoRole THEN projectMembership ELSE "viewer" IN
      IF project.visibility = "private" /\ projectMembership = NoRole THEN NoAccess(NoRole)
      ELSE IF requiredRoles # {} /\ userRole \notin requiredRoles THEN NoAccess(userRole)
      ELSE Access(userRole)

hasTaskAccess(taskId, userId, requiredRoles) ==
  IF getTask(taskId) = "throw" THEN NoAccess(NoRole)
  ELSE IF getTask(taskId) = "null" THEN NoAccess(NoRole)
  ELSE hasProjectAccess(tasks[taskId].projectId, userId, requiredRoles)

hasColumnAccess(columnId, userId, requiredRoles) ==
  IF getColumn(columnId) = "throw" THEN NoAccess(NoRole)
  ELSE IF getColumn(columnId) = "null" THEN NoAccess(NoRole)
  ELSE LET column == columns[columnId]
           projectCheck == hasProjectAccess(column.projectId, userId, requiredRoles) IN
    IF ~projectCheck.hasAccess THEN NoAccess(NoRole)
    ELSE IF /\ column.visibility = "private"
            /\ column.createdBy # userId
            /\ FindMember(projects[column.projectId].members, userId) = NoRole
      THEN NoAccess(NoRole)
    ELSE Access(projectCheck.role)

hasAgentAccess(agentId, userId, requiredRoles) ==
  IF getAgent(agentId) = "throw" THEN NoAccess(NoRole)
  ELSE IF getAgent(agentId) = "null" THEN NoAccess(NoRole)
  ELSE IF agents[agentId].isPublic THEN Access(NoRole)
  ELSE hasOrganizationAccess(agents[agentId].organizationId, userId, requiredRoles)


(***************************************************************************)
(* Access checks as operations: each records the check made (which check,  *)
(* for whom, on what, with which requiredRoles) and its outcome in authz.  *)
(***************************************************************************)
NoCheck == [check |-> "none", userId |-> NoUser, id |-> NoId, requiredRoles |-> {},
            allowed |-> FALSE, status |-> 0, error |-> "", role |-> NoRole]

MiddlewareOutcome(check, requiredRoles, userId, id, res) ==
  [check |-> check, userId |-> userId, id |-> id, requiredRoles |-> requiredRoles,
   allowed |-> res.allowed, status |-> res.status, error |-> res.error, role |-> res.role]

UtilsOutcome(check, requiredRoles, userId, id, res) ==
  [check |-> check, userId |-> userId, id |-> id, requiredRoles |-> requiredRoles,
   allowed |-> res.hasAccess, status |-> 0, error |-> "", role |-> res.role]

\* Callers of the checks: a user whose memberships vary, or no user at all.
Callers == {"u1"}
MiddlewareIds(ids) == ids \cup {GhostId, BadId, NoId}
UtilsIds(ids) == ids \cup {GhostId, BadId}

\* A request makes its check once; the check writes its outcome and touches
\* nothing else.
Checked(outcome) ==
  /\ authz = NoCheck
  /\ authz' = outcome
  /\ UNCHANGED <<other, direct, store, assistant>>

OrganizationMiddleware ==
  \E rr \in RequiredRolesChoices, u \in Callers \cup {NoUser}, id \in MiddlewareIds({"o1"}) :
    Checked(MiddlewareOutcome("requireOrganizationAccess", rr, u, id,
                               requireOrganizationAccess(rr, u, id)))

ProjectMiddleware ==
  \E rr \in RequiredRolesChoices, u \in Callers \cup {NoUser}, id \in MiddlewareIds({"p1"}) :
    Checked(MiddlewareOutcome("requireProjectAccess", rr, u, id,
                               requireProjectAccess(rr, u, id)))

TaskMiddleware ==
  \E rr \in RequiredRolesChoices, u \in Callers \cup {NoUser}, id \in MiddlewareIds({"t1"}) :
    Checked(MiddlewareOutcome("requireTaskAccess", rr, u, id,
                               requireTaskAccess(rr, u, id)))

ColumnMiddleware ==
  \E rr \in RequiredRolesChoices, u \in Callers \cup {NoUser}, id \in MiddlewareIds({"c1"}) :
    Checked(MiddlewareOutcome("requireColumnAccess", rr, u, id,
                               requireColumnAccess(rr, u, id)))

AgentMiddleware ==
  \E rr \in RequiredRolesChoices, u \in Callers \cup {NoUser}, id \in MiddlewareIds({"a1"}) :
    Checked(MiddlewareOutcome("requireAgentAccess", rr, u, id,
                               requireAgentAccess(rr, u, id)))

OrganizationUtils ==
  \E rr \in RequiredRolesChoices, u \in Callers, id \in UtilsIds({"o1"}) :
    Checked(UtilsOutcome("hasOrganizationAccess", rr, u, id,
                          hasOrganizationAccess(id, u, rr)))

ProjectUtils ==
  \E rr \in RequiredRolesChoices, u \in Callers, id \in UtilsIds({"p1"}) :
    Checked(UtilsOutcome("hasProjectAccess", rr, u, id, hasProjectAccess(id, u, rr)))

TaskUtils ==
  \E rr \in RequiredRolesChoices, u \in Callers, id \in UtilsIds({"t1"}) :
    Checked(UtilsOutcome("hasTaskAccess", rr, u, id, hasTaskAccess(id, u, rr)))

ColumnUtils ==
  \E rr \in RequiredRolesChoices, u \in Callers, id \in UtilsIds({"c1"}) :
    Checked(UtilsOutcome("hasColumnAccess", rr, u, id, hasColumnAccess(id, u, rr)))

AgentUtils ==
  \E rr \in RequiredRolesChoices, u \in Callers, id \in UtilsIds({"a1"}) :
    Checked(UtilsOutcome("hasAgentAccess", rr, u, id, hasAgentAccess(id, u, rr)))


(***************************************************************************)
(* MongoService writers used by the AI tools.  Each returns the outcome of *)
(* the call (it threw message, or it returned value) together with the     *)
(* tasks and columns collections as the call leaves them.                  *)
(***************************************************************************)
\* Columns and tasks are hard-deleted: the document is gone.
AbsentTask == [exists |-> FALSE, projectId |-> NoId, columnId |-> NoId,
               position |-> 0, title |-> "", assignees |-> <<>>, agentHistory |-> <<>>,
               actualTokensUsed |-> 0]
AbsentColumn == [exists |-> FALSE, projectId |-> NoId, visibility |-> "public",
                 createdBy |-> NoUser, title |-> "", name |-> "", position |-> 0]

Throws(msg) == [threw |-> TRUE, message |-> msg, value |-> "", tasks |-> tasks, columns |-> columns]
Returns(value, newTasks, newColumns) ==
  [threw |-> FALSE, message |-> "", value |-> value, tasks |-> newTasks, columns |-> newColumns]

\* UpdateTaskRequest: the fields the caller gave; a title or columnId of
\* NoId, and a FALSE has-flag, stand for a field that is not given.
Updates(title, columnId, hasPosition, position, hasAgentHistory, agentHistory) ==
  [title |-> title, columnId |-> columnId, hasPosition |-> hasPosition, position |-> position,
   hasAgentHistory |-> hasAgentHistory, agentHistory |-> agentHistory,
   hasActualTokensUsed |-> FALSE, actualTokensUsed |-> 0]

\* The request with actualTokensUsed given as well.
WithActualTokensUsed(updates, actualTokensUsed) ==
  [updates EXCEPT !.hasActualTokensUsed = TRUE, !.actualTokensUsed = actualTokensUsed]

TitleUpdate(title) == Updates(title, NoId, FALSE, 0, FALSE, <<>>)

\* findOneAndUpdate with $set of every field given
SetFields(doc, updates) ==
  [doc EXCEPT
     !.title = IF updates.title = NoId THEN @ ELSE updates.title,
     !.columnId = IF updates.columnId = NoId THEN @ ELSE updates.columnId,
     !.position = IF updates.hasPosition THEN updates.position ELSE @,
     !.agentHistory = IF updates.hasAgentHistory THEN updates.agentHistory ELSE @,
     !.actualTokensUsed = IF updates.hasActualTokensUsed THEN updates.actualTokensUsed ELSE @]

updateTask(taskId, updates) ==
  IF ~ObjectIdIsValid(taskId) THEN Throws("Invalid task ID format")
  ELSE IF getTask(taskId) = "null" THEN Returns("null", tasks, columns)
  ELSE Returns("task", [tasks EXCEPT ![taskId] = SetFields(@, updates)], columns)

deleteTask(taskId) ==
  IF ~ObjectIdIsValid(taskId) THEN Throws("Invalid task ID format")
  ELSE IF getTask(taskId) = "null" THEN Returns("false", tasks, columns)
  ELSE Returns("true", [tasks EXCEPT ![taskId] = AbsentTask], columns)

\* The greatest position among the tasks of a column, and whether it has any.
TasksOfColumn(columnId) == {t \in TaskIds : tasks[t].exists /\ tasks[t].columnId = columnId}
MaxPosition(columnId) ==
  CHOOSE m \in {tasks[t].position : t \in TasksOfColumn(columnId)} :
    \A t \in TasksOfColumn(columnId) : tasks[t].position <= m

\* moveTask that takes the next position of the column whatever position is given
moveTask_alwaysAppends(taskId, newColumnId, hasPosition, newPosition) ==
  IF ~ObjectIdIsValid(taskId) THEN Throws("Invalid task ID format")
  ELSE IF ~ObjectIdIsValid(newColumnId) THEN Throws("Invalid column ID format")
  ELSE IF getColumn(newColumnId) = "null" THEN Throws("Target column not found")
  ELSE LET position == IF TasksOfColumn(newColumnId) = {} THEN 0
                       ELSE MaxPosition(newColumnId) + 1 IN
    IF getTask(taskId) = "null" THEN Returns("null", tasks, columns)
    ELSE Returns("task",
                 [tasks EXCEPT ![taskId].columnId = newColumnId, ![taskId].position = position],
                 columns)

moveTask(taskId, newColumnId, hasPosition, newPosition) ==
  IF ~ObjectIdIsValid(taskId) THEN Throws("Invalid task ID format")
  ELSE IF ~ObjectIdIsValid(newColumnId) THEN Throws("Invalid column ID format")
  ELSE IF getColumn(newColumnId) = "null" THEN Throws("Target column not found")
  ELSE LET position == IF hasPosition THEN newPosition
                       ELSE IF TasksOfColumn(newColumnId) = {} THEN 0
                       ELSE MaxPosition(newColumnId) + 1 IN
    IF getTask(taskId) = "null" THEN Returns("null", tasks, columns)
    ELSE Returns("task",
                 [tasks EXCEPT ![taskId].columnId = newColumnId, ![taskId].position = position],
                 columns)

updateColumn(columnId, updates) ==
  IF ~ObjectIdIsValid(columnId) THEN Throws("Invalid column ID format")
  ELSE IF getColumn(columnId) = "null" THEN Returns("null", tasks, columns)
  ELSE Returns("column", tasks,
               IF updates.title = NoId THEN columns
               ELSE [columns EXCEPT ![columnId].title = updates.title])

deleteColumn(columnId) ==
  IF ~ObjectIdIsValid(columnId) THEN Throws("Invalid column ID format")
  ELSE LET remaining == [t \in TaskIds |->
                           IF tasks[t].exists /\ tasks[t].columnId = columnId
                           THEN AbsentTask ELSE tasks[t]] IN
    IF getColumn(columnId) = "null" THEN Returns("false", remaining, columns)
    ELSE Returns("true", remaining, [columns EXCEPT ![columnId] = AbsentColumn])

\* deleteColumn awaits twice: deleteMany on the tasks of the column, then
\* deleteOne on the column.  The two steps, each on the store as it is when the
\* step runs.
deleteColumnTasks(columnId) ==
  [t \in TaskIds |-> IF tasks[t].exists /\ tasks[t].columnId = columnId
                     THEN AbsentTask ELSE tasks[t]]

deleteColumnDocument(columnId) ==
  IF getColumn(columnId) = "null" THEN Returns("false", tasks, columns)
  ELSE Returns("true", tasks, [columns EXCEPT ![columnId] = AbsentColumn])

\* CreateTaskRequest, with the position that TaskController.createTask adds
\* to what it passes on.  assignees are <<[userId, role]>>, agents are agent ids.
CreateTaskRequest(projectId, columnId, title, assignees, agentIds, hasPosition, position) ==
  [projectId |-> projectId, columnId |-> columnId, title |-> title, assignees |-> assignees,
   agents |-> agentIds, hasPosition |-> hasPosition, position |-> position]

\* findOne({projectId, columnId}, {sort: {position: -1}}): the tasks the filter
\* matches, and the position createTask derives from the one found.
TasksMatching(projectId, columnId) ==
  {t \in TaskIds : tasks[t].exists /\ tasks[t].projectId = projectId
                                   /\ tasks[t].columnId = columnId}

NextPosition(projectId, columnId) ==
  LET found == TasksMatching(projectId, columnId) IN
    IF found = {} THEN 0
    ELSE (CHOOSE m \in {tasks[t].position : t \in found} :
            \A t \in found : tasks[t].position <= m) + 1

\* createTask up to the await of insertOne: the checks and the position read.
createTaskRead(data) ==
  IF ~ObjectIdIsValid(data.projectId)
    THEN [threw |-> TRUE, error |-> "Invalid project ID format", position |-> 0]
  ELSE IF ~ObjectIdIsValid(data.columnId)
    THEN [threw |-> TRUE, error |-> "Invalid column ID format", position |-> 0]
  ELSE IF getProject(data.projectId) = "null"
    THEN [threw |-> TRUE, error |-> "Project not found", position |-> 0]
  ELSE IF getColumn(data.columnId) = "null"
    THEN [threw |-> TRUE, error |-> "Column not found", position |-> 0]
  ELSE [threw |-> FALSE, error |-> "",
        position |-> NextPosition(data.projectId, data.columnId)]

\* userId.substring(0, 2).toUpperCase() on the user ids of the model.
Initials(userId) ==
  CASE userId = "u1" -> "U1"
    [] userId = "u2" -> "U2"
    [] OTHER -> userId

\* One entry of data.assignees as createTask stores it (assignedAt left out).
processAssignee_dropsRole(assignee) ==
  [userId |-> assignee.userId, name |-> "User " \o assignee.userId,
   email |-> assignee.userId \o "@example.com", role |-> "",
   initials |-> Initials(assignee.userId)]

processAssignee(assignee) ==
  [userId |-> assignee.userId, name |-> "User " \o assignee.userId,
   email |-> assignee.userId \o "@example.com", role |-> assignee.role,
   initials |-> Initials(assignee.userId)]

\* One entry of agentHistory: who assigned the agent, or the run's result.
HistoryEntry(agentId, kind, by) == [agentId |-> agentId, kind |-> kind, by |-> by]

\* The document createTask builds, with the position read before.
TaskDocument(data, position, createdBy) ==
  [exists |-> TRUE, projectId |-> data.projectId, columnId |-> data.columnId,
   position |-> position, title |-> data.title,
   assignees |-> [i \in 1..Len(data.assignees) |-> processAssignee(data.assignees[i])],
   agentHistory |-> [i \in 1..Len(data.agents) |->
                       HistoryEntry(data.agents[i], "assigned", createdBy)],
   actualTokensUsed |-> 0]

\* insertOne(doc): the tasks collection with the document under a new id.
createTaskInsert_recompute(id, data, position, createdBy) ==
  [tasks EXCEPT ![id] = TaskDocument(data, NextPosition(data.projectId, data.columnId),
                                     createdBy)]

createTaskInsert(id, data, position, createdBy) ==
  [tasks EXCEPT ![id] = TaskDocument(data, position, createdBy)]

\* documentToTask: the fields of the document, copied one by one.
documentToTask(doc) ==
  [projectId |-> doc.projectId, columnId |-> doc.columnId, position |-> doc.position,
   title |-> doc.title, assignees |-> doc.assignees, agentHistory |-> doc.agentHistory,
   actualTokensUsed |-> doc.actualTokensUsed]

\* getColumnsByProject(projectId): the ids of the project's columns.
getColumnsByProject(projectId) ==
  {c \in ColumnIds : columns[c].exists /\ columns[c].projectId = projectId}

\* String.prototype.toLowerCase on the column names and titles of the model.
toLowerCase(str) ==
  CASE str = "Backlog" -> "backlog"
    [] str = "BACKLOG" -> "backlog"
    [] str = "Done" -> "done"
    [] str = "Todo" -> "todo"
    [] str = "In Progress" -> "in progress"
    [] str = "Review" -> "review"
    [] str = "Renewal" -> "renewal"
    [] str = "Undone" -> "undone"
    [] OTHER -> str

(***************************************************************************)
(* AIToolsService: the registry and the tools' execute functions.          *)
(***************************************************************************)
\* initializeTools: the names registered.
ToolNames == {"create_project", "get_project_info", "update_project",
              "create_task", "update_task", "delete_task", "move_task",
              "search_tasks", "analyze_tasks",
              "create_column", "update_column", "delete_column",
              "assign_agent", "run_agent",
              "get_project_analytics", "get_task_stats"}

\* Parameters of a tool call; a field the caller left out is NoId
\* (hasPosition tells whether position was given).
Params(taskId, columnId, columnName, hasPosition, position, title) ==
  [taskId |-> taskId, columnId |-> columnId, columnName |-> columnName,
   hasPosition |-> hasPosition, position |-> position, title |-> title]

updateTaskTool(params, context) == updateTask(params.taskId, TitleUpdate(params.title))

deleteTaskTool(params, context) == deleteTask(params.taskId)

moveTaskTool(params, context) ==
  LET named == {c \in getColumnsByProject(context.projectId) :
                  \/ toLowerCase(columns[c].name) = toLowerCase(params.columnName)
                  \/ toLowerCase(columns[c].title) = toLowerCase(params.columnName)}
      columnId == IF params.columnId # NoId THEN params.columnId
                  ELSE IF params.columnName # NoId /\ named # {}
                    THEN CHOOSE c \in named : \A d \in named : columns[c].position <= columns[d].position
                  ELSE NoId IN
    IF columnId = NoId THEN Throws("Target column not found")
    ELSE moveTask(params.taskId, columnId, params.hasPosition, params.position)

updateColumnTool(params, context) == updateColumn(params.columnId, [title |-> params.title])

deleteColumnTool(params, context) == deleteColumn(params.columnId)

\* assign_agent and run_agent are placeholders that touch nothing.
assignAgentTool(params, context) == Returns("coming soon", tasks, columns)
runAgentTool(params, context) == Returns("coming soon", tasks, columns)

\* tool.execute(parameters, context) for the tools of the registry that the
\* provider is offered in this model.
ToolExecute(toolName, params, context) ==
  CASE toolName = "update_task" -> updateTaskTool(params, context)
    [] toolName = "delete_task" -> deleteTaskTool(params, context)
    [] toolName = "move_task" -> moveTaskTool(params, context)
    [] toolName = "update_column" -> updateColumnTool(params, context)
    [] toolName = "delete_column" -> deleteColumnTool(params, context)
    [] toolName = "assign_agent" -> assignAgentTool(params, context)
    [] toolName = "run_agent" -> runAgentTool(params, context)

ToolNotFound(toolName) == "Tool '" \o toolName \o "' not found"

\* executeTool's result: success with data, or failure with error; threw tells
\* whether executeTool itself threw to its caller.
ToolResult(threw, success, data, error, newTasks, newColumns) ==
  [threw |-> threw, success |-> success, data |-> data, error |-> error,
   tasks |-> newTasks, columns |-> newColumns]

\* executeTool without its try/catch: what the tool throws reaches the caller.
executeTool_noCatch(toolName, parameters, context) ==
  IF toolName \notin ToolNames
    THEN ToolResult(FALSE, FALSE, "", ToolNotFound(toolName), tasks, columns)
  ELSE LET outcome == ToolExecute(toolName, parameters, context) IN
    IF outcome.threw
      THEN ToolResult(TRUE, FALSE, "", outcome.message, outcome.tasks, outcome.columns)
    ELSE ToolResult(FALSE, TRUE, outcome.value, "", outcome.tasks, outcome.columns)

\* executeTool that undoes the request's earlier changes when a tool fails:
\* the store goes back to what it was when the request came in.
executeTool_rollback(toolName, parameters, context) ==
  IF toolName \notin ToolNames
    THEN ToolResult(FALSE, FALSE, "", ToolNotFound(toolName), snapshot.tasks, snapshot.columns)
  ELSE LET outcome == ToolExecute(toolName, parameters, context) IN
    IF outcome.threw
      THEN ToolResult(FALSE, FALSE, "", outcome.message, snapshot.tasks, snapshot.columns)
    ELSE ToolResult(FALSE, TRUE, outcome.value, "", outcome.tasks, outcome.columns)

\* AIToolsService.executeTool: an unknown tool and a tool that throws both
\* give a result with success false; nothing is undone.
executeTool(toolName, parameters, context) ==
  IF toolName \notin ToolNames
    THEN ToolResult(FALSE, FALSE, "", ToolNotFound(toolName), tasks, columns)
  ELSE LET outcome == ToolExecute(toolName, parameters, context) IN
    IF outcome.threw
      THEN ToolResult(FALSE, FALSE, "", outcome.message, outcome.tasks, outcome.columns)
    ELSE ToolResult(FALSE, TRUE, outcome.value, "", outcome.tasks, outcome.columns)


(***************************************************************************)
(* The assistant endpoint: POST /api/ai/assistant.                         *)
(*   authenticateUser -> requireProjectAccessFromBody -> processAIRequest  *)
(***************************************************************************)
\* AIIntent.primary
PrimaryIntents == {"general_answer", "task_creation", "task_management", "agent_assignment",
                   "project_management", "agent_use", "other", "error"}

(***************************************************************************)
(* IntentService (services/openaiService.ts): analyzeIntent and its        *)
(* keyword fallback.  A text is the sequence of its characters.            *)
(***************************************************************************)
UpperCase == <<"A", "B", "C", "D", "E", "F", "G", "H", "I", "J", "K", "L", "M",
               "N", "O", "P", "Q", "R", "S", "T", "U", "V", "W", "X", "Y", "Z">>
LowerCase == <<"a", "b", "c", "d", "e", "f", "g", "h", "i", "j", "k", "l", "m",
               "n", "o", "p", "q", "r", "s", "t", "u", "v", "w", "x", "y", "z">>

\* String.prototype.toLowerCase, character by character
charToLowerCase(ch) ==
  IF \E k \in 1..Len(UpperCase) : UpperCase[k] = ch
    THEN LowerCase[CHOOSE k \in 1..Len(UpperCase) : UpperCase[k] = ch]
    ELSE ch

textToLowerCase(text) == [k \in 1..Len(text) |-> charToLowerCase(text[k])]

\* String.prototype.includes
includes(text, keyword) ==
  \E k \in 1..(Len(text) - Len(keyword) + 1) :
    SubSeq(text, k, k + Len(keyword) - 1) = keyword

CreateTaskKeywords ==
  { <<"c", "r", "e", "a", "t", "e", " ", "t", "a", "s", "k">>,
    <<"a", "d", "d", " ", "t", "a", "s", "k">>,
    <<"n", "e", "w", " ", "t", "a", "s", "k">>,
    <<"m", "a", "k", "e", " ", "t", "a", "s", "k">> }

TaskManagementKeywords ==
  { <<"u", "p", "d", "a", "t", "e", " ", "t", "a", "s", "k">>,
    <<"e", "d", "i", "t", " ", "t", "a", "s", "k">>,
    <<"m", "o", "v", "e", " ", "t", "a", "s", "k">>,
    <<"d", "e", "l", "e", "t", "e", " ", "t", "a", "s", "k">>,
    <<"m", "o", "d", "i", "f", "y", " ", "t", "a", "s", "k">>,
    <<"c", "h", "a", "n", "g", "e", " ", "t", "a", "s", "k">> }

AgentKeywords ==
  { <<"a", "s", "s", "i", "g", "n", " ", "a", "g", "e", "n", "t">>,
    <<"a", "g", "e", "n", "t", " ", "a", "s", "s", "i", "g", "n", "m", "e", "n", "t">>,
    <<"a", "s", "s", "i", "g", "n", " ", "t", "o", " ", "a", "g", "e", "n", "t">>,
    <<"a", "g", "e", "n", "t", " ", "t", "o", " ", "t", "a", "s", "k">> }

ProjectKeywords ==
  { <<"c", "r", "e", "a", "t", "e", " ", "p", "r", "o", "j", "e", "c", "t">>,
    <<"c", "r", "e", "a", "t", "e", " ", "c", "o", "l", "u", "m", "n">>,
    <<"p", "r", "o", "j", "e", "c", "t", " ", "m", "a", "n", "a", "g", "e", "m", "e", "n", "t">>,
    <<"c", "o", "l", "u", "m", "n", " ", "m", "a", "n", "a", "g", "e", "m", "e", "n", "t">> }

AgentUseKeywords ==
  { <<"r", "u", "n", " ", "a", "g", "e", "n", "t">>,
    <<"e", "x", "e", "c", "u", "t", "e", " ", "a", "g", "e", "n", "t">>,
    <<"u", "s", "e", " ", "a", "g", "e", "n", "t">>,
    <<"a", "g", "e", "n", "t", " ", "e", "x", "e", "c", "u", "t", "i", "o", "n">> }

containsCreateTaskKeywords(input) == \E keyword \in CreateTaskKeywords : includes(input, keyword)
containsTaskManagementKeywords(input) == \E keyword \in TaskManagementKeywords : includes(input, keyword)
containsAgentKeywords(input) == \E keyword \in AgentKeywords : includes(input, keyword)
containsProjectKeywords(input) == \E keyword \in ProjectKeywords : includes(input, keyword)
containsAgentUseKeywords(input) == \E keyword \in AgentUseKeywords : includes(input, keyword)

\* What analyzeIntent gives its caller: threw tells whether it raised an
\* error; fallback whether the result is getFallbackIntent's.  confidence is
\* in tenths (6 is 0.6).
Analysis(threw, fallback, primary, confidence) ==
  [threw |-> threw, fallback |-> fallback, primary |-> primary, confidence |-> confidence]

\* getFallbackIntent with project keywords at the confidence of the others.
getFallbackIntent_uniformConfidence(text) ==
  LET input == textToLowerCase(text) IN
    IF containsCreateTaskKeywords(input) THEN Analysis(FALSE, TRUE, "task_creation", 6)
    ELSE IF containsTaskManagementKeywords(input) THEN Analysis(FALSE, TRUE, "task_management", 6)
    ELSE IF containsAgentKeywords(input) THEN Analysis(FALSE, TRUE, "agent_assignment", 6)
    ELSE IF containsProjectKeywords(input) THEN Analysis(FALSE, TRUE, "project_management", 6)
    ELSE IF containsAgentUseKeywords(input) THEN Analysis(FALSE, TRUE, "agent_use", 6)
    ELSE Analysis(FALSE, TRUE, "general_answer", 3)

getFallbackIntent(text) ==
  LET input == textToLowerCase(text) IN
    IF containsCreateTaskKeywords(input) THEN Analysis(FALSE, TRUE, "task_creation", 6)
    ELSE IF containsTaskManagementKeywords(input) THEN Analysis(FALSE, TRUE, "task_management", 6)
    ELSE IF containsAgentKeywords(input) THEN Analysis(FALSE, TRUE, "agent_assignment", 6)
    ELSE IF containsProjectKeywords(input) THEN Analysis(FALSE, TRUE, "project_management", 5)
    ELSE IF containsAgentUseKeywords(input) THEN Analysis(FALSE, TRUE, "agent_use", 6)
    ELSE Analysis(FALSE, TRUE, "general_answer", 3)

\* What the provider does with the classification call: the call throws,
\* times out, answers without content, answers content that JSON.parse
\* rejects, or answers JSON; that JSON may lack the intent object or the
\* entities array, and its primary need not be one of AIIntent.primary.
IntentOutcome(kind, hasIntent, hasEntities, primary, confidence) ==
  [kind |-> kind, hasIntent |-> hasIntent, hasEntities |-> hasEntities,
   primary |-> primary, confidence |-> confidence]

IntentOutcomes ==
  {IntentOutcome(k, FALSE, FALSE, "", 0) : k \in {"throws", "timeout", "no_content", "not_json"}}
  \cup {IntentOutcome("json", FALSE, TRUE, "", 0), IntentOutcome("json", TRUE, FALSE, "task_creation", 9)}
  \cup {IntentOutcome("json", TRUE, TRUE, primary, 9) : primary \in PrimaryIntents \cup {"urgent_fix"}}

\* The try block of analyzeIntent throws: the call failed, the content is
\* missing, JSON.parse fails, or intentResponse.intent / .entities is read
\* where the JSON has none.
TryBlockThrows(outcome) ==
  \/ outcome.kind \in {"throws", "timeout", "no_content", "not_json"}
  \/ ~outcome.hasIntent
  \/ ~outcome.hasEntities

\* analyzeIntent whose catch block raises the error again.
analyzeIntent_rethrow(text, outcome) ==
  IF TryBlockThrows(outcome) THEN Analysis(TRUE, FALSE, "", 0)
  ELSE Analysis(FALSE, FALSE, outcome.primary, outcome.confidence)

analyzeIntent(text, outcome) ==
  IF TryBlockThrows(outcome) THEN getFallbackIntent(text)
  ELSE Analysis(FALSE, FALSE, outcome.primary, outcome.confidence)

\* request.input of the calls considered: every phrase of the keyword
\* tables and some other texts.
IntentInputs ==
  CreateTaskKeywords \cup TaskManagementKeywords \cup AgentKeywords
  \cup ProjectKeywords \cup AgentUseKeywords
  \cup { <<"c", "r", "e", "a", "t", "e", " ", "t", "a", "s", "k", " ", "f", "o", "r", " ", "o", "n", "b", "o", "a", "r", "d", "i", "n", "g">>,
      <<"A", "D", "D", " ", "T", "A", "S", "K">>,
      <<"R", "e", "c", "r", "e", "a", "t", "e", " ", "T", "a", "s", "k", "s">>,
      <<"c", "r", "e", "a", "t", "e", "t", "a", "s", "k">>,
      <<"h", "e", "l", "l", "o">>,
      <<>>,
      <<"c", "r", "e", "a", "t", "e", " ", "c", "o", "l", "u", "m", "n", ",", " ", "r", "u", "n", " ", "a", "g", "e", "n", "t">>,
      <<"u", "s", "e", " ", "a", "g", "e", "n", "t", " ", "t", "o", " ", "a", "d", "d", " ", "t", "a", "s", "k">>,
      <<"D", "e", "l", "e", "t", "e", " ", "T", "a", "s", "k", ";", " ", "a", "s", "s", "i", "g", "n", " ", "a", "g", "e", "n", "t">>,
      <<"P", "r", "o", "j", "e", "c", "t", " ", "M", "a", "n", "a", "g", "e", "m", "e", "n", "t">> }

NoIntentCall == [input |-> <<>>, outcome |-> IntentOutcome("none", FALSE, FALSE, "", 0)]
NoAnalysis == Analysis(FALSE, FALSE, "", 0)
IntentIdle == intentCall = NoIntentCall /\ analysis = NoAnalysis

\* Messages of the errors a provider call fails with; the last is thrown by
\* parseOpenAIResponse when the response has no choices.
ProviderErrors == {"Request timed out.", "500 status code (no body)",
                   "429 rate limit exceeded", "403 insufficient permissions",
                   "No response choices received from OpenAI"}

\* error.message.includes('rate limit') and .includes('insufficient permissions')
IncludesRateLimit(msg) == msg \in {"429 rate limit exceeded"}
IncludesInsufficientPermissions(msg) == msg \in {"403 insufficient permissions"}

NoResponse == [status |-> 0, success |-> FALSE, error |-> "", type |-> "",
               tokensUsed |-> 0, toolResults |-> <<>>]

\* res.status(status).json({success: false, error}); authenticateUser's body
\* has no success field, which reads as not successful too.
HttpError(status, error) == [status |-> status, success |-> FALSE, error |-> error,
                             type |-> "", tokensUsed |-> 0, toolResults |-> <<>>]

\* res.json({success: true, data: aiResponse})
HttpOk(type, tokensUsed, toolResults) ==
  [status |-> 200, success |-> TRUE, error |-> "", type |-> type,
   tokensUsed |-> tokensUsed, toolResults |-> toolResults]

\* mapIntentToResponseType that hands every intent back as the type.
mapIntentToResponseType_identity(primary) == primary

mapIntentToResponseType(primary) ==
  CASE primary = "task_creation" -> "task_creation"
    [] primary = "task_management" -> "task_management"
    [] primary = "agent_assignment" -> "agent_assignment"
    [] primary = "project_management" -> "project_management"
    [] primary = "agent_use" -> "tool_execution"
    [] primary = "error" -> "error"
    [] primary = "other" -> "general_answer"
    [] primary = "general_answer" -> "general_answer"
    [] OTHER -> "general_answer"

\* The catch block of processAIRequest with a provider error answered as a
\* degraded general_answer.
CatchResponse_degraded(msg) ==
  IF IncludesRateLimit(msg) THEN HttpError(429, "Rate limit exceeded")
  ELSE IF IncludesInsufficientPermissions(msg) THEN HttpError(403, "Insufficient permissions")
  ELSE HttpOk("general_answer", 0, <<>>)

\* The catch block of processAIRequest.
CatchResponse(msg) ==
  IF IncludesRateLimit(msg) THEN HttpError(429, "Rate limit exceeded")
  ELSE IF IncludesInsufficientPermissions(msg) THEN HttpError(403, "Insufficient permissions")
  ELSE HttpError(500, "Internal server error")

\* A tool call of the provider's response: its type, the function's name,
\* whether function.arguments parses as JSON, and the parsed parameters.
ToolCall(type, name, jsonOk, parameters) ==
  [type |-> type, name |-> name, jsonOk |-> jsonOk, parameters |-> parameters]

NoParams == Params(NoId, NoId, NoId, FALSE, 0, NoId)

ToolCallChoices ==
  { ToolCall("function", "update_task", TRUE, Params("t1", NoId, NoId, FALSE, 0, "new")),
    ToolCall("function", "update_task", TRUE, Params("t2", NoId, NoId, FALSE, 0, "new")),
    ToolCall("function", "update_task", TRUE, Params(BadId, NoId, NoId, FALSE, 0, "new")),
    ToolCall("function", "update_task", FALSE, NoParams),
    ToolCall("custom", "update_task", TRUE, Params("t1", NoId, NoId, FALSE, 0, "new")),
    ToolCall("function", "delete_task", TRUE, Params("t2", NoId, NoId, FALSE, 0, NoId)),
    ToolCall("function", "move_task", TRUE, Params("t1", NoId, "BACKLOG", FALSE, 0, NoId)),
    ToolCall("function", "move_task", TRUE, Params("t2", "c1", NoId, TRUE, 3, NoId)),
    ToolCall("function", "delete_column", TRUE, Params(NoId, "c2", NoId, FALSE, 0, NoId)),
    ToolCall("function", "delete_everything", TRUE, NoParams) }

SeqsUpTo(S, n) == UNION {[1..k -> S] : k \in 0..n}

\* authenticateUser: a request without a valid bearer token ends here.
Authenticate ==
  /\ pc = "authenticate"
  /\ IF req.token # "valid"
       THEN /\ response' = HttpError(401, "Missing or invalid authorization header")
            /\ pc' = "done"
       ELSE /\ pc' = "authorize"
            /\ UNCHANGED response
  /\ UNCHANGED <<other, direct, store, authz, req, intent, providerCalls, providerError, proposed, tokens, idx, running,
                 toolCalls, message, execLog, snapshot>>

\* requireProjectAccessFromBody that goes on to the controller whatever the
\* access check answered.
Authorize_noReturn ==
  /\ pc = "authorize"
  /\ LET res == requireProjectAccess({}, req.user, req.projectId) IN
       /\ authz' = MiddlewareOutcome("requireProjectAccess", {}, req.user, req.projectId, res)
       /\ pc' = "validate"
       /\ response' = IF res.allowed THEN response ELSE HttpError(res.status, res.error)
  /\ UNCHANGED <<other, direct, store, req, intent, providerCalls, providerError, proposed, tokens, idx, running,
                 toolCalls, message, execLog, snapshot>>

\* requireProjectAccessFromBody: requireProjectAccess() on body.projectId.
Authorize ==
  /\ pc = "authorize"
  /\ LET res == requireProjectAccess({}, req.user, req.projectId) IN
       /\ authz' = MiddlewareOutcome("requireProjectAccess", {}, req.user, req.projectId, res)
       /\ IF res.allowed
            THEN pc' = "validate" /\ UNCHANGED response
            ELSE pc' = "done" /\ response' = HttpError(res.status, res.error)
  /\ UNCHANGED <<other, direct, store, req, intent, providerCalls, providerError, proposed, tokens, idx, running,
                 toolCalls, message, execLog, snapshot>>

\* processAIRequest: enhancedAIRequestSchema.safeParse(req.body)
Validate ==
  /\ pc = "validate"
  /\ IF ~req.bodyValid
       THEN pc' = "done" /\ response' = HttpError(400, "Invalid request data")
       ELSE pc' = "intent" /\ UNCHANGED response
  /\ UNCHANGED <<other, direct, store, authz, req, intent, providerCalls, providerError, proposed, tokens, idx, running,
                 toolCalls, message, execLog, snapshot>>

\* processAIRequest with intent-based routing: the intent is classified for a
\* conversational request only, a request with tools goes to the provider
\* at once.
AnalyzeIntent_onlyWithoutTools ==
  /\ pc = "intent"
  /\ IF req.enableTools
       THEN UNCHANGED <<intent, providerCalls>>
       ELSE /\ \E text \in IntentInputs, outcome \in IntentOutcomes :
                 intent' = analyzeIntent(text, outcome).primary
            /\ providerCalls' = providerCalls + 1
  /\ pc' = "provider"
  /\ UNCHANGED <<other, direct, store, authz, req, providerError, proposed, tokens, idx,
                 running, toolCalls, message, execLog, response, snapshot>>

\* processAIRequest: intentService.analyzeIntent(aiRequest), one provider
\* call; intentAnalysis.intent.primary is what the controller keeps.
AnalyzeIntent ==
  /\ pc = "intent"
  /\ \E text \in IntentInputs, outcome \in IntentOutcomes :
       intent' = analyzeIntent(text, outcome).primary
  /\ providerCalls' = providerCalls + 1
  /\ pc' = "provider"
  /\ UNCHANGED <<other, direct, store, authz, req, providerError, proposed, tokens, idx, running,
                 toolCalls, message, execLog, response, snapshot>>

\* processWithTools / processConversation: the completion call fails (or
\* its response has no choices); the error is rethrown to processAIRequest,
\* whose catch block answers.
ProviderFails ==
  /\ pc = "provider"
  /\ providerCalls' = providerCalls + 1
  /\ \E msg \in ProviderErrors :
       /\ providerError' = msg
       /\ response' = CatchResponse(msg)
  /\ pc' = "done"
  /\ UNCHANGED <<other, direct, store, authz, req, intent, proposed, tokens, idx, running,
                 toolCalls, message, execLog, snapshot>>

\* The completion call returns a message with tool_calls (possibly none).
ProviderResponds ==
  /\ pc = "provider"
  /\ providerCalls' = providerCalls + 1
  /\ \E calls \in SeqsUpTo(ToolCallChoices, MaxToolCalls) : proposed' = calls
  /\ \E total \in {0, 7} : tokens' = total
  /\ idx' = 1
  /\ pc' = "tools"
  /\ UNCHANGED <<other, direct, store, authz, req, intent, providerError, running, toolCalls, message,
                 execLog, response, snapshot>>

\* toolCalls.push({name, parameters}); call is the position in tool_calls.
PushToolCall(list, entry) == Append(list, entry)

\* await: the loop goes on only when the executeTool it started has returned.
Awaited_notAwaited(inFlight) == TRUE
Awaited(inFlight) == inFlight = {}

\* What parseOpenAIResponse does with a call whose arguments do not parse:
\* "continue" goes on with the next call.
OnMalformedArguments_break == "break"
OnMalformedArguments == "continue"

\* parseOpenAIResponse, one iteration of the loop over tool_calls up to the
\* call of executeTool.
ParseToolCall ==
  /\ pc = "tools"
  /\ idx <= Len(proposed)
  /\ Awaited(running)
  /\ LET toolCall == proposed[idx] IN
       IF toolCall.type # "function"
         THEN idx' = idx + 1 /\ UNCHANGED <<toolCalls, running>>
       ELSE IF ~toolCall.jsonOk
         THEN /\ idx' = IF OnMalformedArguments = "continue" THEN idx + 1
                        ELSE Len(proposed) + 1
              /\ UNCHANGED <<toolCalls, running>>
       ELSE /\ toolCalls' = PushToolCall(toolCalls,
                              [call |-> idx, name |-> toolCall.name,
                               parameters |-> toolCall.parameters])
            \* toolContext is passed by processWithTools only
            /\ running' = IF req.enableTools THEN running \cup {idx} ELSE running
            /\ idx' = idx + 1
  /\ UNCHANGED <<other, direct, store, authz, req, pc, intent, providerCalls, providerError, proposed,
                 tokens, message, execLog, response, snapshot>>

\* The annotation parseOpenAIResponse appends for an executed call.
Annotation(name, result) ==
  [kind |-> IF result.threw THEN "Error executing"
            ELSE IF result.success THEN "Successfully executed"
            ELSE "Failed to execute",
   name |-> name]

\* executeTool runs to its end for a call that was started.
ToolFinish ==
  /\ pc = "tools"
  /\ \E i \in running :
       LET toolCall == proposed[i]
           context == [userId |-> req.user, projectId |-> req.projectId,
                       organizationId |-> "o1"]
           registered == toolCall.name \in ToolNames
           outcome == IF registered THEN ToolExecute(toolCall.name, toolCall.parameters, context)
                      ELSE Returns("", tasks, columns)
           result == executeTool(toolCall.name, toolCall.parameters, context) IN
         /\ tasks' = result.tasks
         /\ columns' = result.columns
         /\ message' = Append(message, Annotation(toolCall.name, result))
         /\ execLog' = Append(execLog,
                         [call |-> i, name |-> toolCall.name, registered |-> registered,
                          toolThrew |-> outcome.threw, toolMessage |-> outcome.message,
                          toolValue |-> outcome.value,
                          threw |-> result.threw, success |-> result.success,
                          data |-> result.data, error |-> result.error])
         /\ running' = running \ {i}
  /\ UNCHANGED <<other, direct, organizations, projects, agents, authz, req, pc, intent, providerCalls,
                 providerError, proposed, tokens, idx, toolCalls, response, snapshot>>

\* processToolBasedRequest: one toolResults entry per entry of toolCalls.
ToolResultEntry(toolCallEntry) == [tool |-> toolCallEntry.name, success |-> TRUE, error |-> ""]

\* The loop is over: parseOpenAIResponse returns, the response is aggregated
\* (processToolBasedRequest or processConversationalRequest) and sent.
SendResponse ==
  /\ pc = "tools"
  /\ idx > Len(proposed)
  /\ Awaited(running)
  /\ response' = IF req.enableTools
                   THEN HttpOk(mapIntentToResponseType(intent), tokens,
                               [k \in 1..Len(toolCalls) |-> ToolResultEntry(toolCalls[k])])
                   ELSE HttpOk("general_answer", tokens, <<>>)
  /\ pc' = "done"
  /\ UNCHANGED <<other, direct, store, authz, req, intent, providerCalls, providerError, proposed, tokens, idx, running,
                 toolCalls, message, execLog, snapshot>>

(***************************************************************************)
(* Store contents.  The creator of an organization or project is its       *)
(* owner member (createOrganization, createProject); "u2" is that creator  *)
(* and the memberships of "u1" vary.                                       *)
(***************************************************************************)
Members(u1Role) == [u \in Users |-> IF u = "u1" THEN u1Role ELSE "owner"]

Organization(isActive, u1Role) == [isActive |-> isActive, members |-> Members(u1Role)]

Project(isActive, visibility, u1Role) ==
  [isActive |-> isActive, organizationId |-> "o1", visibility |-> visibility,
   members |-> Members(u1Role)]

Column(projectId, visibility, createdBy, title, name) ==
  [exists |-> TRUE, projectId |-> projectId, visibility |-> visibility,
   createdBy |-> createdBy, title |-> title, name |-> name, position |-> 0]

Task(projectId, columnId, position) ==
  [exists |-> TRUE, projectId |-> projectId, columnId |-> columnId,
   position |-> position, title |-> "old", assignees |-> <<>>, agentHistory |-> <<>>,
   actualTokensUsed |-> 0]

Agent(isActive, isPublic) == [isActive |-> isActive, organizationId |-> "o1", isPublic |-> isPublic]

\* Project p2 is a private project of which "u1" is no member.
FixedTasks ==
  [t \in TaskIds |-> IF t = "t1" THEN Task("p1", "c1", 0)
                     ELSE IF t = "t2" THEN Task("p2", "c2", 0)
                     ELSE AbsentTask]

\* No task operation was made.
NoData == [projectId |-> NoId, columnId |-> NoId, title |-> "", assignees |-> <<>>,
           agents |-> <<>>, hasPosition |-> FALSE, position |-> 0]
Step(op, taskId, columnId, hasPosition, position, result, data) ==
  [op |-> op, taskId |-> taskId, columnId |-> columnId, hasPosition |-> hasPosition,
   position |-> position, result |-> result, data |-> data]
NoStep == Step("none", NoId, NoId, FALSE, 0, "", NoData)
TasksIdle ==
  pending = {} /\ overlapped = FALSE /\ lastStep = NoStep /\ prevStep = NoStep /\ started = 0
\* No MCPClient was constructed.
McpIdle ==
  /\ mcpPc = "none" /\ mcpProcess = "null" /\ connected = FALSE /\ requestId = 0
  /\ pendingRequests = {} /\ stdin = <<>> /\ rejected = 0 /\ outputs = 0

\* column.settings of a column with no auto-run.
NoAutoRun == [autoRun |-> FALSE, autoRunAgent |-> NoId]
NoMoveRequest == [userId |-> NoUser, taskId |-> NoId, columnId |-> NoId,
                  hasPosition |-> FALSE, position |-> 0, role |-> NoRole,
                  taskProjectId |-> NoId]
NoMoveColumn == [found |-> FALSE, projectId |-> NoId, settings |-> NoAutoRun]
\* No move request was made.
MoveIdle ==
  /\ moveReq = NoMoveRequest /\ movePc = "none" /\ moveColumn = NoMoveColumn
  /\ columnSettings = [c \in ColumnIds |-> NoAutoRun]
  /\ timer = "none" /\ resWrites = <<>> /\ sentResponses = <<>> /\ unhandled = 0

\* No call of hasMinimumRole was made.
NoRoleCall == [userRole |-> NoRole, minimumRole |-> NoRole]
RolesIdle == roleCall = NoRoleCall /\ roleResult = "none"
OtherIdle == RolesIdle /\ toolRequest = [toolName |-> "none", params |-> NoParams]
                       /\ toolOutcome = [threw |-> FALSE, message |-> "", value |-> "none"]
                       /\ McpIdle /\ MoveIdle
DirectIdle == IntentIdle /\ TasksIdle /\ OtherIdle

\* No assistant request is being handled.
AssistantIdle ==
  /\ req = [token |-> "missing", user |-> NoUser, projectId |-> NoId,
            bodyValid |-> FALSE, enableTools |-> FALSE]
  /\ pc = "idle"
  /\ intent = ""
  /\ providerCalls = 0
  /\ providerError = ""
  /\ proposed = <<>>
  /\ tokens = 0
  /\ idx = 1
  /\ running = {}
  /\ toolCalls = <<>>
  /\ message = <<>>
  /\ execLog = <<>>
  /\ response = NoResponse
  /\ snapshot = [tasks |-> tasks, columns |-> columns]

(***************************************************************************)
(* Specification of the project-scoped checks: the store is any            *)
(* combination of organization state, project state and column state, and  *)
(* the checks run against it.                                              *)
(***************************************************************************)
InitAccess ==
  /\ \E a \in BOOLEAN, r \in OrgRoles \cup {NoRole} :
       organizations = [o \in OrgIds |-> Organization(a, r)]
  /\ \E a \in BOOLEAN, v \in Visibilities, r \in ProjectRoles \cup {NoRole} :
       projects = [p \in ProjectIds |->
                     IF p = "p1" THEN Project(a, v, r) ELSE Project(TRUE, "private", NoRole)]
  /\ \E v \in Visibilities, u \in Users :
       columns = [c \in ColumnIds |->
                    IF c = "c1" THEN Column("p1", v, u, "Backlog", "backlog")
                    ELSE Column("p2", "public", "u2", "Done", "done")]
  /\ tasks = FixedTasks
  /\ agents = [a \in AgentIds |-> Agent(TRUE, FALSE)]
  /\ authz = NoCheck
  /\ AssistantIdle
  /\ DirectIdle

NextAccess ==
  \/ OrganizationMiddleware
  \/ ProjectMiddleware
  \/ TaskMiddleware
  \/ ColumnMiddleware
  \/ OrganizationUtils
  \/ ProjectUtils
  \/ TaskUtils
  \/ ColumnUtils

SpecAccess == InitAccess /\ [][NextAccess]_vars

(***************************************************************************)
(* Specification of the agent checks.                                      *)
(***************************************************************************)
InitAgentAccess ==
  /\ \E a \in BOOLEAN, r \in OrgRoles \cup {NoRole} :
       organizations = [o \in OrgIds |-> Organization(a, r)]
  /\ projects = [p \in ProjectIds |->
                   IF p = "p1" THEN Project(TRUE, "team", "editor")
                   ELSE Project(TRUE, "private", NoRole)]
  /\ columns = [c \in ColumnIds |->
                  IF c = "c1" THEN Column("p1", "public", "u2", "Backlog", "backlog")
                  ELSE Column("p2", "public", "u2", "Done", "done")]
  /\ tasks = FixedTasks
  /\ \E a \in BOOLEAN, pub \in BOOLEAN : agents = [g \in AgentIds |-> Agent(a, pub)]
  /\ authz = NoCheck
  /\ AssistantIdle
  /\ DirectIdle

NextAgentAccess ==
  \/ AgentMiddleware
  \/ AgentUtils

SpecAgentAccess == InitAgentAccess /\ [][NextAgentAccess]_vars

(***************************************************************************)
(* Specification of the assistant endpoint: one request, from any of the   *)
(* two users, for an existing, unknown, malformed or missing project id,   *)
(* with a valid or invalid body, with tools enabled or not.                *)
(* "u1" is a member of the organization and an editor or a viewer of       *)
(* project p1;                                                             *)
(* project p2 is private and "u1" is no member of it.                      *)
(***************************************************************************)
Request(token, user, projectId, bodyValid, enableTools) ==
  [token |-> token, user |-> user, projectId |-> projectId,
   bodyValid |-> bodyValid, enableTools |-> enableTools]

InitAssistant ==
  /\ organizations = [o \in OrgIds |-> Organization(TRUE, "member")]
  /\ \E role \in {"editor", "viewer"} :
       projects = [p \in ProjectIds |->
                     IF p = "p1" THEN Project(TRUE, "team", role)
                     ELSE Project(TRUE, "private", NoRole)]
  /\ columns = [c \in ColumnIds |->
                  IF c = "c1" THEN Column("p1", "public", "u2", "Backlog", "backlog")
                  ELSE Column("p2", "public", "u2", "Done", "done")]
  /\ tasks = FixedTasks
  /\ agents = [g \in AgentIds |-> Agent(TRUE, FALSE)]
  /\ authz = NoCheck
  /\ \E token \in {"valid", "missing"}, user \in Users,
        projectId \in {"p1", "p2", GhostId, BadId, NoId},
        bodyValid \in BOOLEAN, enableTools \in BOOLEAN :
       req = Request(token, user, projectId, bodyValid, enableTools)
  /\ pc = "authenticate"
  /\ intent = ""
  /\ providerCalls = 0
  /\ providerError = ""
  /\ proposed = <<>>
  /\ tokens = 0
  /\ idx = 1
  /\ running = {}
  /\ toolCalls = <<>>
  /\ message = <<>>
  /\ execLog = <<>>
  /\ response = NoResponse
  /\ snapshot = [tasks |-> tasks, columns |-> columns]
  /\ DirectIdle

NextAssistant ==
  \/ Authenticate
  \/ Authorize
  \/ Validate
  \/ AnalyzeIntent
  \/ ProviderFails
  \/ ProviderResponds
  \/ ParseToolCall
  \/ ToolFinish
  \/ SendResponse

SpecAssistant == InitAssistant /\ [][NextAssistant]_vars

(***************************************************************************)
(* Specification of intent classification: one call of analyzeIntent, for  *)
(* any of the inputs and anything the provider does with the call.         *)
(***************************************************************************)
AnalyzeIntentCall ==
  /\ analysis = NoAnalysis
  /\ analysis' = analyzeIntent(intentCall.input, intentCall.outcome)
  /\ UNCHANGED <<other, store, authz, assistant, intentCall, pending, overlapped, lastStep,
                 prevStep, started>>

InitIntent ==
  /\ organizations = [o \in OrgIds |-> Organization(TRUE, "member")]
  /\ projects = [p \in ProjectIds |->
                   IF p = "p1" THEN Project(TRUE, "team", "editor")
                   ELSE Project(TRUE, "private", NoRole)]
  /\ columns = [c \in ColumnIds |->
                  IF c = "c1" THEN Column("p1", "public", "u2", "Backlog", "backlog")
                  ELSE Column("p2", "public", "u2", "Done", "done")]
  /\ tasks = FixedTasks
  /\ agents = [g \in AgentIds |-> Agent(TRUE, FALSE)]
  /\ authz = NoCheck
  /\ AssistantIdle
  /\ \E text \in IntentInputs, outcome \in IntentOutcomes :
       intentCall = [input |-> text, outcome |-> outcome]
  /\ analysis = NoAnalysis
  /\ TasksIdle
  /\ OtherIdle

NextIntent == AnalyzeIntentCall

SpecIntent == InitIntent /\ [][NextIntent]_vars

(***************************************************************************)
(* The task store under concurrent requests.  Each action is one request   *)
(* of a caller the access checks let through, or the part of a request     *)
(* between two of its awaits on the database; node runs each part to its   *)
(* end before another starts.  Timestamps are left out of the documents.   *)
(***************************************************************************)
\* Number of task operations the model starts.
MaxOps == 3

\* createdBy / req.user.id of the requests
Caller == "u1"

\* ids insertOne can give to a new document, in the order they are given out
NewTaskIds == <<"t3", "t4">>

\* An operation that has awaited and not yet finished.
Pending(op, taskId, columnId, data, position, history, entries) ==
  [op |-> op, taskId |-> taskId, columnId |-> columnId, data |-> data, position |-> position,
   history |-> history, entries |-> entries, actualTokensUsed |-> 0]

PendingOf(op) == {f \in pending : f.op = op}

\* result.insertedId: an id no document has and no running insert was given
Unused(id) == ~tasks[id].exists /\ \A f \in PendingOf("createTask") : f.taskId # id
InsertedId == IF Unused(NewTaskIds[1]) THEN NewTaskIds[1] ELSE NewTaskIds[2]

CreateTaskRequests ==
  {CreateTaskRequest(p, c, "new", <<>>, <<>>, FALSE, 0) : p \in ProjectIds, c \in ColumnIds}
  \cup {CreateTaskRequest(p, "c1", "new", <<[userId |-> "u2", role |-> "reviewer"]>>, <<"a1">>,
                          TRUE, 7) : p \in ProjectIds}
  \cup {CreateTaskRequest("p1", BadId, "new", <<>>, <<>>, FALSE, 0)}

\* Bodies of PATCH /tasks/:taskId
UpdateTaskRequests ==
  {TitleUpdate("new"), Updates(NoId, NoId, TRUE, 0, FALSE, <<>>),
   Updates(NoId, "c2", FALSE, 0, FALSE, <<>>), Updates(NoId, NoId, FALSE, 0, TRUE, <<>>),
   WithActualTokensUsed(Updates(NoId, NoId, FALSE, 0, FALSE, <<>>), 0)}

\* executionResult.tokensUsed of an agent run
TokensUsed == {100, 200}

\* Explicit positions of a move
MovePositions == {0, 3}

\* Tasks the requests name
NamedTasks == {"t1", "t2", "t3"}

Begin ==
  /\ started < MaxOps
  /\ started' = started + 1
  /\ overlapped' = (overlapped \/ pending # {})

\* The step made is written down, after the one before it.
Record(step) == lastStep' = step /\ prevStep' = lastStep

StoreOnly == <<other, organizations, projects, agents, authz, assistant, intentCall, analysis>>

\* createTask up to its await of insertOne
CreateTaskStart ==
  \E data \in CreateTaskRequests :
    LET read == createTaskRead(data) IN
      /\ Begin
      /\ IF read.threw
           THEN /\ Record(Step("createTask", NoId, data.columnId, data.hasPosition,
                                    data.position, "throw", data))
                /\ UNCHANGED pending
           ELSE /\ Unused(InsertedId)
                /\ pending' = pending \cup {Pending("createTask", InsertedId, data.columnId, data,
                                                    read.position, <<>>, <<>>)}
                /\ Record(Step("createTask:read", InsertedId, data.columnId,
                                    data.hasPosition, data.position, "", data))
      /\ UNCHANGED <<StoreOnly, tasks, columns>>

\* insertOne and the return of createTask
CreateTaskFinish ==
  \E f \in PendingOf("createTask") :
    /\ tasks' = createTaskInsert(f.taskId, f.data, f.position, Caller)
    /\ pending' = pending \ {f}
    /\ Record(Step("createTask", f.taskId, f.columnId, f.data.hasPosition,
                        f.data.position, "task", f.data))
    /\ UNCHANGED <<StoreOnly, columns, overlapped, started>>

\* PATCH /tasks/:taskId: TaskController.updateTask passes the body to updateTask
UpdateTaskCall ==
  \E taskId \in NamedTasks, updates \in UpdateTaskRequests :
    LET r == updateTask(taskId, updates) IN
      /\ Begin
      /\ tasks' = r.tasks
      /\ Record(Step("updateTask", taskId, updates.columnId, updates.hasPosition,
                          updates.position, r.value, NoData))
      /\ UNCHANGED <<StoreOnly, columns, pending>>

\* MongoService.moveTask, with and without a position; its read of the
\* column's maximum and its update are taken as one step.
MoveTaskCall ==
  \E taskId \in NamedTasks, columnId \in ColumnIds, hasPosition \in BOOLEAN,
     position \in MovePositions :
    LET r == moveTask(taskId, columnId, hasPosition, position) IN
      /\ hasPosition \/ position = 0
      /\ Begin
      /\ tasks' = r.tasks
      /\ Record(Step("moveTask", taskId, columnId, hasPosition, position,
                          IF r.threw THEN "throw" ELSE r.value, NoData))
      /\ UNCHANGED <<StoreOnly, columns, pending>>

\* MongoService.deleteTask
DeleteTaskCall ==
  \E taskId \in NamedTasks :
    LET r == deleteTask(taskId) IN
      /\ Begin
      /\ tasks' = r.tasks
      /\ Record(Step("deleteTask", taskId, NoId, FALSE, 0, r.value, NoData))
      /\ UNCHANGED <<StoreOnly, columns, pending>>

\* deleteColumn up to its second await: deleteMany has removed the tasks
DeleteColumnStart ==
  \E columnId \in ColumnIds :
    /\ Begin
    /\ tasks' = deleteColumnTasks(columnId)
    /\ pending' = pending \cup {Pending("deleteColumn", NoId, columnId, NoData, 0, <<>>, <<>>)}
    /\ Record(Step("deleteColumn:deleteMany", NoId, columnId, FALSE, 0, "", NoData))
    /\ UNCHANGED <<StoreOnly, columns>>

\* deleteOne and the return of deleteColumn
DeleteColumnFinish ==
  \E f \in PendingOf("deleteColumn") :
    LET r == deleteColumnDocument(f.columnId) IN
      /\ columns' = r.columns
      /\ pending' = pending \ {f}
      /\ Record(Step("deleteColumn", NoId, f.columnId, FALSE, 0, r.value, NoData))
      /\ UNCHANGED <<StoreOnly, tasks, overlapped, started>>

\* assignAgentsToTask up to its await of updateTask: the task read by getTask
\* and the entries to add to its agentHistory.
AssignAgentsStart ==
  \E taskId \in NamedTasks, agentId \in AgentIds :
    /\ Begin
    /\ IF getTask(taskId) = "null"
         THEN /\ Record(Step("assignAgentsToTask", taskId, NoId, FALSE, 0, "404", NoData))
              /\ UNCHANGED pending
         ELSE /\ pending' = pending \cup
                   {Pending("assignAgentsToTask", taskId, NoId, NoData, 0,
                            tasks[taskId].agentHistory,
                            <<HistoryEntry(agentId, "assigned", Caller)>>)}
              /\ Record(Step("assignAgentsToTask:getTask", taskId, NoId, FALSE, 0, "", NoData))
    /\ UNCHANGED <<StoreOnly, tasks, columns>>

\* updateTask(taskId, {agents, agentHistory: [...task.agentHistory, ...entries]})
AssignAgentsFinish ==
  \E f \in PendingOf("assignAgentsToTask") :
    LET r == updateTask(f.taskId, Updates(NoId, NoId, FALSE, 0, TRUE, f.history \o f.entries)) IN
      /\ tasks' = r.tasks
      /\ pending' = pending \ {f}
      /\ Record(Step("assignAgentsToTask", f.taskId, NoId, FALSE, 0,
                     IF r.value = "null" THEN "500" ELSE r.value, NoData))
      /\ UNCHANGED <<StoreOnly, columns, overlapped, started>>

\* What runAgent writes, from the task it read before the run: the history
\* with the run's entry and task.actualTokensUsed + executionResult.tokensUsed.
RunAgentUpdates(f) ==
  WithActualTokensUsed(Updates(NoId, NoId, FALSE, 0, TRUE, f.history \o f.entries),
                       f.actualTokensUsed)

\* runAgent up to its await of updateTask: the task read by getTask, and the
\* run of the agent with the tokens it used.
RunAgentStart ==
  \E taskId \in NamedTasks, agentId \in AgentIds, tokensUsed \in TokensUsed :
    /\ Begin
    /\ IF getTask(taskId) = "null"
         THEN /\ Record(Step("runAgent", taskId, NoId, FALSE, 0, "404", NoData))
              /\ UNCHANGED pending
         ELSE /\ pending' = pending \cup
                   {[Pending("runAgent", taskId, NoId, NoData, 0, tasks[taskId].agentHistory,
                             <<HistoryEntry(agentId, "run", Caller)>>)
                       EXCEPT !.actualTokensUsed = tasks[taskId].actualTokensUsed + tokensUsed]}
              /\ Record(Step("runAgent:getTask", taskId, NoId, FALSE, 0, "", NoData))
    /\ UNCHANGED <<StoreOnly, tasks, columns>>

RunAgentFinish ==
  \E f \in PendingOf("runAgent") :
    LET r == updateTask(f.taskId, RunAgentUpdates(f)) IN
      /\ tasks' = r.tasks
      /\ pending' = pending \ {f}
      /\ Record(Step("runAgent", f.taskId, NoId, FALSE, 0,
                     IF r.value = "null" THEN "500" ELSE r.value, NoData))
      /\ UNCHANGED <<StoreOnly, columns, overlapped, started>>

InitTasks ==
  /\ organizations = [o \in OrgIds |-> Organization(TRUE, "owner")]
  /\ projects = [p \in ProjectIds |-> Project(TRUE, "team", "owner")]
  /\ columns = [c \in ColumnIds |->
                  IF c = "c1" THEN Column("p1", "public", "u2", "Backlog", "backlog")
                  ELSE Column("p2", "public", "u2", "Done", "done")]
  /\ tasks = [t \in TaskIds |-> IF t = "t1" THEN Task("p1", "c1", 0)
                                ELSE IF t = "t2" THEN Task("p1", "c1", 1)
                                ELSE AbsentTask]
  /\ agents = [g \in AgentIds |-> Agent(TRUE, FALSE)]
  /\ authz = NoCheck
  /\ AssistantIdle
  /\ DirectIdle

NextTasks ==
  \/ CreateTaskStart
  \/ CreateTaskFinish
  \/ UpdateTaskCall
  \/ MoveTaskCall
  \/ DeleteTaskCall
  \/ DeleteColumnStart
  \/ DeleteColumnFinish
  \/ AssignAgentsStart
  \/ AssignAgentsFinish
  \/ RunAgentStart
  \/ RunAgentFinish

SpecTasks == InitTasks /\ [][NextTasks]_vars

(***************************************************************************)
(* The organizations collection under concurrent createOrganization and    *)
(* deleteOrganization.  A document has a slug; createOrganization is split *)
(* at the await between its findOne and its insertOne.                     *)
(***************************************************************************)
OrgDocIds == <<"o1", "o2", "o3">>
OrgDocIdSet == {OrgDocIds[i] : i \in 1..Len(OrgDocIds)}
Slugs == {"acme", "beta"}

OrganizationDocument(slug, createdBy) ==
  [exists |-> TRUE, isActive |-> TRUE, slug |-> slug,
   members |-> [u \in Users |-> IF u = createdBy THEN "owner" ELSE NoRole]]
NoOrganizationDocument ==
  [exists |-> FALSE, isActive |-> FALSE, slug |-> "", members |-> [u \in Users |-> NoRole]]

\* findOne({slug: data.slug}): whether any document, active or not, has the slug
SlugExists(slug) == \E o \in OrgDocIdSet : organizations[o].exists /\ organizations[o].slug = slug

\* result.insertedId: the first id no document has and no running insert was given
UnusedOrgId(o) ==
  ~organizations[o].exists /\ \A f \in PendingOf("createOrganization") : f.taskId # o
InsertedOrgId ==
  OrgDocIds[CHOOSE i \in 1..Len(OrgDocIds) :
              UnusedOrgId(OrgDocIds[i]) /\ \A j \in 1..(i - 1) : ~UnusedOrgId(OrgDocIds[j])]

\* The slug a running createOrganization was called with
PendingSlug(f) == f.data.title

\* createOrganization up to its await of insertOne: the check of the slug
CreateOrganizationStart ==
  \E slug \in Slugs :
    /\ Begin
    /\ IF SlugExists(slug)
         THEN /\ Record(Step("createOrganization", NoId, NoId, FALSE, 0, "throw",
                             [NoData EXCEPT !.title = slug]))
              /\ UNCHANGED pending
         ELSE /\ \E i \in 1..Len(OrgDocIds) : UnusedOrgId(OrgDocIds[i])
              /\ pending' = pending \cup
                   {Pending("createOrganization", InsertedOrgId, NoId,
                            [NoData EXCEPT !.title = slug], 0, <<>>, <<>>)}
              /\ Record(Step("createOrganization:findOne", InsertedOrgId, NoId, FALSE, 0, "",
                             [NoData EXCEPT !.title = slug]))
    /\ UNCHANGED <<other, store, authz, assistant, intentCall, analysis>>

\* insertOne(doc) and the return of createOrganization
CreateOrganizationFinish ==
  \E f \in PendingOf("createOrganization") :
    /\ organizations' =
         [organizations EXCEPT ![f.taskId] = OrganizationDocument(PendingSlug(f), Caller)]
    /\ pending' = pending \ {f}
    /\ Record(Step("createOrganization", f.taskId, NoId, FALSE, 0, "organization", f.data))
    /\ UNCHANGED <<other, projects, columns, tasks, agents, authz, assistant, intentCall,
                   analysis, overlapped, started>>

\* deleteOrganization: updateOne sets isActive to false; modifiedCount is 1
\* when the document exists, since updatedAt changes.
DeleteOrganizationCall ==
  \E organizationId \in OrgDocIdSet :
    /\ Begin
    /\ organizations' =
         IF organizations[organizationId].exists
           THEN [organizations EXCEPT ![organizationId].isActive = FALSE]
           ELSE organizations
    /\ Record(Step("deleteOrganization", organizationId, NoId, FALSE, 0,
                   IF organizations[organizationId].exists THEN "true" ELSE "false", NoData))
    /\ UNCHANGED <<other, projects, columns, tasks, agents, authz, assistant, intentCall,
                   analysis, pending>>

InitOrgs ==
  /\ organizations = [o \in OrgDocIdSet |-> IF o = "o1" THEN OrganizationDocument("acme", "u2")
                                            ELSE NoOrganizationDocument]
  /\ projects = [p \in ProjectIds |-> Project(TRUE, "team", "editor")]
  /\ columns = [c \in ColumnIds |->
                  IF c = "c1" THEN Column("p1", "public", "u2", "Backlog", "backlog")
                  ELSE Column("p2", "public", "u2", "Done", "done")]
  /\ tasks = FixedTasks
  /\ agents = [g \in AgentIds |-> Agent(TRUE, FALSE)]
  /\ authz = NoCheck
  /\ AssistantIdle
  /\ DirectIdle

NextOrgs ==
  \/ CreateOrganizationStart
  \/ CreateOrganizationFinish
  \/ DeleteOrganizationCall

SpecOrgs == InitOrgs /\ [][NextOrgs]_vars

(***************************************************************************)
(* create_task and move_task of AIToolsService: how the target column is   *)
(* found when the call carries no column id.  Names and titles are strings *)
(* in the store; Chars gives their characters.                             *)
(***************************************************************************)
\* The characters of the column names, titles and names asked for in the model.
Chars(str) ==
  CASE str = "Backlog" -> <<"B", "a", "c", "k", "l", "o", "g">>
    [] str = "Todo" -> <<"T", "o", "d", "o">>
    [] str = "In Progress" -> <<"I", "n", " ", "P", "r", "o", "g", "r", "e", "s", "s">>
    [] str = "Done" -> <<"D", "o", "n", "e">>
    [] str = "Review" -> <<"R", "e", "v", "i", "e", "w">>
    [] str = "Renewal" -> <<"R", "e", "n", "e", "w", "a", "l">>
    [] str = "Undone" -> <<"U", "n", "d", "o", "n", "e">>
    [] str = "BACKLOG" -> <<"B", "A", "C", "K", "L", "O", "G">>
    [] str = "done" -> <<"d", "o", "n", "e">>
    [] str = "missing" -> <<"m", "i", "s", "s", "i", "n", "g">>
    [] str = "doing" -> <<"d", "o", "i", "n", "g">>
    [] OTHER -> <<>>

\* str.toLowerCase(), as characters
LowerChars(str) == textToLowerCase(Chars(str))

\* getColumnsByProject(projectId) as the array it returns: sorted by position.
RECURSIVE SortByPosition(_)
SortByPosition(ids) ==
  IF ids = {} THEN <<>>
  ELSE LET first == CHOOSE c \in ids : \A d \in ids : columns[c].position <= columns[d].position
       IN <<first>> \o SortByPosition(ids \ {first})

ColumnsArray(projectId) == SortByPosition(getColumnsByProject(projectId))

\* Array.prototype.find with the column's id taken (column?._id): the first
\* column of the array the test holds for, NoId when there is none.
FindColumn(array, Test(_)) ==
  IF \E i \in 1..Len(array) : Test(array[i])
    THEN array[CHOOSE i \in 1..Len(array) :
                 Test(array[i]) /\ \A j \in 1..(i - 1) : ~Test(array[j])]
  ELSE NoId

\* col.name.toLowerCase() === columnName.toLowerCase() || the same for col.title
NamedColumn(array, columnName) ==
  LET Test(c) == \/ LowerChars(columns[c].name) = LowerChars(columnName)
                 \/ LowerChars(columns[c].title) = LowerChars(columnName)
  IN FindColumn(array, Test)

\* col.title.toLowerCase().includes(pattern) || the same for col.name
ColumnWithPattern(array, pattern) ==
  LET Test(c) == \/ includes(LowerChars(columns[c].title), pattern)
                 \/ includes(LowerChars(columns[c].name), pattern)
  IN FindColumn(array, Test)

defaultMappings(status) ==
  CASE status = "backlog" ->
         <<<<"b", "a", "c", "k", "l", "o", "g">>,
           <<"t", "o", "d", "o">>,
           <<"i", "d", "e", "a", "s">>,
           <<"n", "e", "w">>>>
    [] status = "ready" ->
         <<<<"r", "e", "a", "d", "y">>,
           <<"t", "o", " ", "d", "o">>,
           <<"t", "o", "d", "o">>,
           <<"p", "l", "a", "n", "n", "e", "d">>>>
    [] status = "in_progress" ->
         <<<<"i", "n", " ", "p", "r", "o", "g", "r", "e", "s", "s">>,
           <<"d", "o", "i", "n", "g">>,
           <<"w", "i", "p">>,
           <<"a", "c", "t", "i", "v", "e">>,
           <<"w", "o", "r", "k", "i", "n", "g">>>>
    [] status = "done" ->
         <<<<"d", "o", "n", "e">>,
           <<"c", "o", "m", "p", "l", "e", "t", "e", "d">>,
           <<"f", "i", "n", "i", "s", "h", "e", "d">>,
           <<"c", "o", "m", "p", "l", "e", "t", "e">>>>
    [] status = "blocked" ->
         <<<<"b", "l", "o", "c", "k", "e", "d">>,
           <<"w", "a", "i", "t", "i", "n", "g">>,
           <<"h", "o", "l", "d">>>>
    [] status = "cancelled" ->
         <<<<"c", "a", "n", "c", "e", "l", "l", "e", "d">>,
           <<"c", "a", "n", "c", "e", "l", "e", "d">>,
           <<"r", "e", "j", "e", "c", "t", "e", "d">>>>
    [] OTHER -> <<>>

commonPatterns ==
  <<<<"b", "a", "c", "k", "l", "o", "g">>,
    <<"t", "o", "d", "o">>,
    <<"r", "e", "a", "d", "y">>,
    <<"n", "e", "w">>>>

\* for (const pattern of patterns) { find; if (matchedColumn) break }: the
\* column found for the first pattern some column contains.
FirstPatternMatch(array, patterns) ==
  IF \E k \in 1..Len(patterns) : ColumnWithPattern(array, patterns[k]) # NoId
    THEN ColumnWithPattern(array,
           patterns[CHOOSE k \in 1..Len(patterns) :
                      /\ ColumnWithPattern(array, patterns[k]) # NoId
                      /\ \A j \in 1..(k - 1) : ColumnWithPattern(array, patterns[j]) = NoId])
  ELSE NoId

\* Parameters of create_task: columnId, columnName and status are NoId when
\* the call leaves them out.
CreateParams(columnId, columnName, status, title) ==
  [taskId |-> NoId, columnId |-> columnId, columnName |-> columnName, status |-> status,
   hasPosition |-> FALSE, position |-> 0, title |-> title]

\* The column create_task takes, NoId when it finds none.
createTaskColumn_statusFirst(params, context) ==
  LET array == ColumnsArray(context.projectId)
      byStatus == IF params.status # NoId
                    THEN FirstPatternMatch(array, defaultMappings(params.status)) ELSE NoId
      named == IF params.columnName # NoId THEN NamedColumn(array, params.columnName) ELSE NoId
  IN IF params.columnId # NoId THEN params.columnId
     ELSE IF byStatus # NoId THEN byStatus
     ELSE IF named # NoId THEN named
     ELSE IF array # <<>> THEN array[1] ELSE NoId

createTaskColumn(params, context) ==
  LET array == ColumnsArray(context.projectId)
      named == IF params.columnId = NoId /\ params.columnName # NoId
                 THEN NamedColumn(array, params.columnName) ELSE NoId
      afterName == IF params.columnId # NoId THEN params.columnId ELSE named
      byStatus == IF params.status # NoId
                    THEN FirstPatternMatch(array, defaultMappings(params.status)) ELSE NoId
      byCommon == FirstPatternMatch(array, commonPatterns)
  IN IF afterName # NoId THEN afterName
     ELSE IF byStatus # NoId THEN byStatus
     ELSE IF byCommon # NoId THEN byCommon
     ELSE IF array # <<>> THEN array[1] ELSE NoId

\* MongoService.createTask run to its end with nothing in between.
createTask(data, createdBy) ==
  LET read == createTaskRead(data) IN
    IF read.threw THEN Throws(read.error)
    ELSE Returns("task", createTaskInsert(InsertedId, data, read.position, createdBy), columns)

createTaskTool(params, context) ==
  LET columnId == createTaskColumn(params, context) IN
    IF columnId = NoId THEN Throws("No columns found in project. Create columns first.")
    ELSE createTask(CreateTaskRequest(context.projectId, columnId, params.title, <<>>, <<>>,
                                      FALSE, 0),
                    context.userId)

\* A call of create_task or move_task through executeTool's tool.execute,
\* in a request authorized for project p1.
ToolRequest(toolName, params) == [toolName |-> toolName, params |-> params]
NoToolRequest == ToolRequest("none", NoParams)
NoToolOutcome == [threw |-> FALSE, message |-> "", value |-> "none"]
ResolveIdle == toolRequest = NoToolRequest /\ toolOutcome = NoToolOutcome

ResolveContext == [userId |-> "u1", projectId |-> "p1"]

\* Names and titles of the columns, and the names and statuses a call gives
ColumnTitles == {"Backlog", "Todo", "In Progress", "Done", "Review", "Renewal", "Undone"}
ColumnNamesAsked == {NoId, "BACKLOG", "done", "missing"}
StatusesAsked == {NoId, "backlog", "in_progress", "done", "archived"}

ToolRequests ==
  {ToolRequest("create_task", CreateParams(NoId, columnName, status, "new")) :
     columnName \in ColumnNamesAsked, status \in StatusesAsked}
  \cup {ToolRequest("move_task",
                    [CreateParams(NoId, columnName, status, NoId) EXCEPT !.taskId = "t1"]) :
          columnName \in ColumnNamesAsked, status \in StatusesAsked}
  \cup {ToolRequest("create_task", CreateParams("c1", "done", NoId, "new")),
        ToolRequest("move_task", [CreateParams("c2", "done", NoId, NoId) EXCEPT !.taskId = "t1"])}

\* tool.execute(params, context), run to its end
ToolExecuteCall ==
  /\ toolOutcome = NoToolOutcome
  /\ LET r == IF toolRequest.toolName = "create_task"
                THEN createTaskTool(toolRequest.params, ResolveContext)
              ELSE moveTaskTool(toolRequest.params, ResolveContext) IN
       /\ tasks' = r.tasks
       /\ columns' = r.columns
       /\ toolOutcome' = [threw |-> r.threw, message |-> r.message, value |-> r.value]
  /\ UNCHANGED <<organizations, projects, agents, authz, assistant, direct, roles, mcp, move,
                 toolRequest>>

\* Project p1 with no column, one column or two; c2 may come first by position.
ResolveColumn(c, present, title, position) ==
  IF present THEN [Column("p1", "public", "u2", title, title) EXCEPT !.position = position]
  ELSE AbsentColumn

InitResolve ==
  /\ organizations = [o \in OrgIds |-> Organization(TRUE, "member")]
  /\ projects = [p \in ProjectIds |-> Project(TRUE, "team", "editor")]
  /\ \E has1 \in BOOLEAN, has2 \in BOOLEAN, title1 \in ColumnTitles, title2 \in ColumnTitles,
        firstIs2 \in BOOLEAN :
       /\ has1 \/ title1 = "Backlog"
       /\ has2 \/ title2 = "Backlog"
       /\ (has1 /\ has2) \/ ~firstIs2
       /\ columns = [c \in ColumnIds |->
                       IF c = "c1" THEN ResolveColumn(c, has1, title1, IF firstIs2 THEN 1 ELSE 0)
                       ELSE ResolveColumn(c, has2, title2, IF firstIs2 THEN 0 ELSE 1)]
  /\ tasks = [t \in TaskIds |-> IF t = "t1" THEN Task("p1", "c1", 0) ELSE AbsentTask]
  /\ agents = [g \in AgentIds |-> Agent(TRUE, FALSE)]
  /\ authz = NoCheck
  /\ AssistantIdle
  /\ IntentIdle /\ TasksIdle /\ RolesIdle /\ McpIdle /\ MoveIdle
  /\ toolRequest \in ToolRequests
  /\ toolOutcome = NoToolOutcome

NextResolve == ToolExecuteCall

SpecResolve == InitResolve /\ [][NextResolve]_vars

(***************************************************************************)
(* MCPClient: the constructor with initialize, the callers' sendRequest,   *)
(* server's output and the end of the child process.  The timers (10 s in  *)
(* waitForConnection, 30 s per request) can only reject a promise and are  *)
(* left out.                                                               *)
(***************************************************************************)
\* Number of sendRequest calls made by callers, and of chunks the server
\* writes that answer no pending request.
MaxRequests == 6
MaxOutputs == 5

\* sendRequest, with this.process as it is at the call: what it does on the
\* client's state.  threw tells that it threw 'MCP client not connected';
\* otherwise the request was written.
sendRequest_noConnectedTest(process) ==
  IF process # "running"
    THEN [threw |-> TRUE, requestId |-> requestId, pendingRequests |-> pendingRequests,
          stdin |-> stdin]
  ELSE [threw |-> FALSE, requestId |-> requestId + 1,
        pendingRequests |-> pendingRequests \cup {requestId + 1},
        stdin |-> Append(stdin, requestId + 1)]

sendRequest(process) ==
  IF process # "running" \/ ~connected
    THEN [threw |-> TRUE, requestId |-> requestId, pendingRequests |-> pendingRequests,
          stdin |-> stdin]
  ELSE [threw |-> FALSE, requestId |-> requestId + 1,
        pendingRequests |-> pendingRequests \cup {requestId + 1},
        stdin |-> Append(stdin, requestId + 1)]

\* The constructor's call of initialize, which runs without a break up to
\* its await of waitForConnection.  Either reading the config throws and
\* initialize ends in its catch, or the server is spawned and
\* waitForConnection calls sendRequest({method: 'tools/list'}): when that
\* throws, the promise is rejected and initialize ends in its catch; else the
\* request waits for its response.
Initialize ==
  /\ mcpPc = "initialize"
  /\ \/ /\ mcpProcess' = "null"
        /\ mcpPc' = "failed"
        /\ UNCHANGED <<requestId, pendingRequests, stdin>>
     \/ /\ mcpProcess' = "running"
        /\ LET sent == sendRequest("running") IN
             /\ mcpPc' = IF sent.threw THEN "failed" ELSE "awaiting"
             /\ requestId' = sent.requestId
             /\ pendingRequests' = sent.pendingRequests
             /\ stdin' = sent.stdin
  /\ UNCHANGED <<store, authz, assistant, direct, roles, resolve, move,
                 connected, rejected, outputs>>

\* query, insert, update, aggregate: a caller's sendRequest.
SendRequestCall ==
  /\ mcpPc # "none"
  /\ rejected + Len(stdin) < MaxRequests
  /\ LET sent == sendRequest(mcpProcess) IN
       /\ rejected' = IF sent.threw THEN rejected + 1 ELSE rejected
       /\ requestId' = sent.requestId
       /\ pendingRequests' = sent.pendingRequests
       /\ stdin' = sent.stdin
  /\ UNCHANGED <<store, authz, assistant, direct, roles, resolve, move,
                 mcpPc, mcpProcess, connected,
                 outputs>>

\* handleStdout: a chunk of the server's output.  A line that is no JSON or
\* has no id or an id that is not pending changes nothing; the response to a
\* pending request resolves it, and the response to waitForConnection's
\* request sets connected.
HandleStdout ==
  /\ mcpProcess = "running"
  /\ \E id \in {0} \cup 1..(requestId + 1) :
       IF id \in pendingRequests
         THEN /\ pendingRequests' = pendingRequests \ {id}
              /\ IF mcpPc = "awaiting" /\ id = stdin[1]
                   THEN connected' = TRUE /\ mcpPc' = "connected"
                   ELSE UNCHANGED <<connected, mcpPc>>
              /\ UNCHANGED outputs
         ELSE /\ outputs < MaxOutputs
              /\ outputs' = outputs + 1
              /\ UNCHANGED <<pendingRequests, connected, mcpPc>>
  /\ UNCHANGED <<store, authz, assistant, direct, roles, resolve, move,
                 mcpProcess, requestId, stdin,
                 rejected>>

\* process.on('exit') and process.on('error')
ProcessExits ==
  /\ mcpProcess = "running"
  /\ mcpProcess' = "exited"
  /\ connected' = FALSE
  /\ UNCHANGED <<store, authz, assistant, direct, roles, resolve, move,
                 mcpPc, requestId,
                 pendingRequests, stdin, rejected, outputs>>

\* disconnect()
Disconnect ==
  /\ mcpPc # "none"
  /\ mcpProcess # "null"
  /\ mcpProcess' = "null"
  /\ connected' = FALSE
  /\ pendingRequests' = {}
  /\ UNCHANGED <<store, authz, assistant, direct, roles, resolve, move,
                 mcpPc, requestId, stdin,
                 rejected, outputs>>

\* new MCPClient(): the fields as declared, initialize about to run.
InitMcp ==
  /\ organizations = [o \in OrgIds |-> Organization(TRUE, "member")]
  /\ projects = [p \in ProjectIds |-> Project(TRUE, "team", "editor")]
  /\ columns = [c \in ColumnIds |->
                  IF c = "c1" THEN Column("p1", "public", "u2", "Backlog", "backlog")
                  ELSE Column("p2", "public", "u2", "Done", "done")]
  /\ tasks = FixedTasks
  /\ agents = [g \in AgentIds |-> Agent(TRUE, FALSE)]
  /\ authz = NoCheck
  /\ AssistantIdle
  /\ IntentIdle /\ TasksIdle /\ RolesIdle /\ ResolveIdle /\ MoveIdle
  /\ mcpPc = "initialize" /\ mcpProcess = "null" /\ connected = FALSE /\ requestId = 0
  /\ pendingRequests = {} /\ stdin = <<>> /\ rejected = 0 /\ outputs = 0

NextMcp ==
  \/ Initialize
  \/ SendRequestCall
  \/ HandleStdout
  \/ ProcessExits
  \/ Disconnect

\* The server answers a request that is pending.
ServerAnswers == HandleStdout /\ pendingRequests' # pendingRequests

\* The client is constructed, and a running server answers the requests
\* written to it.
SpecMcp ==
  /\ InitMcp /\ [][NextMcp]_vars
  /\ WF_vars(Initialize) /\ WF_vars(ServerAnswers)

(***************************************************************************)
(* AuthorizationUtils.hasMinimumRole, applied to role names of the         *)
(* hierarchy and to names that are not in it.                              *)
(***************************************************************************)
\* getRoleHierarchy()
getRoleHierarchy == <<"viewer", "member", "editor", "admin", "owner">>

\* Array.prototype.indexOf: the 0-based index of the first element strictly
\* equal to name, -1 when there is none.
indexOf(array, name) ==
  IF \E i \in 1..Len(array) : array[i] = name
    THEN (CHOOSE i \in 1..Len(array) :
            array[i] = name /\ \A j \in 1..(i - 1) : array[j] # name) - 1
  ELSE -1

\* hasMinimumRole without the two tests for -1
hasMinimumRole_indexOnly(userRole, minimumRole) ==
  indexOf(getRoleHierarchy, userRole) >= indexOf(getRoleHierarchy, minimumRole)

hasMinimumRole(userRole, minimumRole) ==
  LET hierarchy == getRoleHierarchy
      userIndex == indexOf(hierarchy, userRole)
      requiredIndex == indexOf(hierarchy, minimumRole) IN
    userIndex # -1 /\ requiredIndex # -1 /\ userIndex >= requiredIndex

\* Role names given to hasMinimumRole: the hierarchy's, and names it lacks.
RoleNames ==
  {getRoleHierarchy[i] : i \in 1..Len(getRoleHierarchy)}
    \cup {"superuser", "Owner", "", NoId, NoRole}

\* One call of hasMinimumRole; it has no await and catches nothing, so it
\* returns or throws in one step.
HasMinimumRoleCall ==
  /\ roleResult = "none"
  /\ roleResult' = IF hasMinimumRole(roleCall.userRole, roleCall.minimumRole)
                     THEN "true" ELSE "false"
  /\ UNCHANGED <<store, authz, assistant, direct, resolve, mcp, move, roleCall>>

InitRoles ==
  /\ organizations = [o \in OrgIds |-> Organization(TRUE, "member")]
  /\ projects = [p \in ProjectIds |-> Project(TRUE, "team", "editor")]
  /\ columns = [c \in ColumnIds |->
                  IF c = "c1" THEN Column("p1", "public", "u2", "Backlog", "backlog")
                  ELSE Column("p2", "public", "u2", "Done", "done")]
  /\ tasks = FixedTasks
  /\ agents = [g \in AgentIds |-> Agent(TRUE, FALSE)]
  /\ authz = NoCheck
  /\ AssistantIdle
  /\ IntentIdle
  /\ TasksIdle
  /\ \E userRole \in RoleNames, minimumRole \in RoleNames :
       roleCall = [userRole |-> userRole, minimumRole |-> minimumRole]
  /\ roleResult = "none"
  /\ ResolveIdle /\ McpIdle /\ MoveIdle

NextRoles == HasMinimumRoleCall

SpecRoles == InitRoles /\ [][NextRoles]_vars

(***************************************************************************)
(* The move endpoint: POST /api/tasks/:taskId/move.                        *)
(*   authenticateUser -> requireTaskAccess(['owner','editor'])             *)
(*                    -> TaskController.moveTask                           *)
(* When the target column has autoRun and an autoRunAgent, moveTask sets a *)
(* timer of 100 ms whose callback calls AgentController.runAgent with a    *)
(* copy of the request and with the response object of the move request.   *)
(***************************************************************************)
\* One call of res.json: who made it and the status it carried.
Written(by, status) == [by |-> by, status |-> status]

\* The response object of the move request.
Res == [writes |-> resWrites, sent |-> sentResponses, unhandled |-> unhandled, threw |-> FALSE]

\* res.headersSent
headersSent(res) == res.sent # <<>>

\* res.status(status).json(body): Express sends the response when none was
\* sent on this object and throws ERR_HTTP_HEADERS_SENT when one was.
json(res, by, status) ==
  [writes |-> Append(res.writes, Written(by, status)),
   sent |-> IF headersSent(res) THEN res.sent ELSE Append(res.sent, Written(by, status)),
   unhandled |-> res.unhandled,
   threw |-> headersSent(res)]

\* A response written in the try block of moveTask or runAgent: what res.json
\* throws is caught by the handler's catch block, which answers 500; what
\* that throws rejects the promise the handler returned, and neither Express
\* nor the timer callback handles it.
Responds(res, by, status) ==
  LET first == json(res, by, status) IN
    IF ~first.threw THEN first
    ELSE LET second == json(first, by, 500) IN
      IF ~second.threw THEN second
      ELSE [second EXCEPT !.unhandled = @ + 1]

SetRes(res) ==
  /\ resWrites' = res.writes
  /\ sentResponses' = res.sent
  /\ unhandled' = res.unhandled

\* MongoService.hasProjectAccess(projectId, userId)
mongoHasProjectAccess(projectId, userId) ==
  IF ~ObjectIdIsValid(projectId) THEN FALSE
  ELSE IF getProject(projectId) # "ok" THEN FALSE
  ELSE LET project == projects[projectId] IN
    IF getOrganization(project.organizationId) # "ok" THEN FALSE
    ELSE IF FindMember(organizations[project.organizationId].members, userId) = NoRole
      THEN FALSE
    ELSE IF project.visibility = "private"
      THEN FindMember(project.members, userId) # NoRole
    ELSE TRUE

MoveRequest(userId, taskId, columnId, hasPosition, position) ==
  [userId |-> userId, taskId |-> taskId, columnId |-> columnId,
   hasPosition |-> hasPosition, position |-> position, role |-> NoRole,
   taskProjectId |-> NoId]

MoveUnchanged ==
  <<organizations, projects, columns, agents, authz, assistant, intentCall, analysis,
    overlapped, lastStep, prevStep, started, roles, resolve, mcp, columnSettings>>

\* requireTaskAccess(['owner', 'editor']): next() with req.task and
\* req.projectMembership set, or one error response.
MoveTaskMiddleware ==
  /\ movePc = "middleware"
  /\ LET check == requireTaskAccess({"owner", "editor"}, moveReq.userId, moveReq.taskId) IN
       IF check.allowed
         THEN /\ moveReq' = [moveReq EXCEPT !.role = check.role,
                                            !.taskProjectId = tasks[moveReq.taskId].projectId]
              /\ movePc' = "controller"
              /\ UNCHANGED <<resWrites, sentResponses, unhandled>>
         ELSE /\ SetRes(Responds(Res, "requireTaskAccess", check.status))
              /\ movePc' = "done"
              /\ UNCHANGED moveReq
  /\ UNCHANGED <<MoveUnchanged, tasks, pending, moveColumn, timer>>

\* TaskController.moveTask up to its await of getColumn: the role test, and
\* the column document read.
MoveTaskGetColumn ==
  /\ movePc = "controller"
  /\ LET userRole == IF moveReq.role # NoRole THEN moveReq.role ELSE "viewer" IN
       IF userRole \notin {"owner", "editor"}
         THEN /\ SetRes(Responds(Res, "moveTask", 403))
              /\ movePc' = "done"
              /\ UNCHANGED moveColumn
       ELSE IF getColumn(moveReq.columnId) = "throw"
         THEN /\ SetRes(Responds(Res, "moveTask", 500))
              /\ movePc' = "done"
              /\ UNCHANGED moveColumn
       ELSE /\ moveColumn' = IF getColumn(moveReq.columnId) = "null" THEN NoMoveColumn
                             ELSE [found |-> TRUE,
                                   projectId |-> columns[moveReq.columnId].projectId,
                                   settings |-> columnSettings[moveReq.columnId]]
            /\ movePc' = "column"
            /\ UNCHANGED <<resWrites, sentResponses, unhandled>>
  /\ UNCHANGED <<MoveUnchanged, tasks, pending, moveReq, timer>>

\* TaskController.moveTask from the column on: the tests of the column, the
\* updateTask, the timer of the auto-run and the response.
MoveTaskUpdate ==
  /\ movePc = "column"
  /\ movePc' = "done"
  /\ IF ~moveColumn.found
       THEN /\ SetRes(Responds(Res, "moveTask", 404))
            /\ UNCHANGED <<tasks, timer>>
     ELSE IF moveColumn.projectId # moveReq.taskProjectId
       THEN /\ SetRes(Responds(Res, "moveTask", 403))
            /\ UNCHANGED <<tasks, timer>>
     ELSE LET r == updateTask(moveReq.taskId,
                              Updates(NoId, moveReq.columnId, moveReq.hasPosition,
                                      moveReq.position, FALSE, <<>>)) IN
       /\ tasks' = r.tasks
       /\ IF r.threw
            THEN SetRes(Responds(Res, "moveTask", 500)) /\ UNCHANGED timer
          ELSE IF r.value = "null"
            THEN SetRes(Responds(Res, "moveTask", 404)) /\ UNCHANGED timer
          ELSE /\ timer' = IF moveColumn.settings.autoRun
                                /\ moveColumn.settings.autoRunAgent # NoId
                             THEN "set" ELSE timer
               /\ SetRes(Responds(Res, "moveTask", 200))
  /\ UNCHANGED <<MoveUnchanged, pending, moveReq, moveColumn>>

\* The timer fires: AgentController.runAgent(mockReq, res) up to its await of
\* updateTask.
TimerFires ==
  /\ timer = "set"
  /\ IF getTask(moveReq.taskId) = "null"
       THEN /\ SetRes(Responds(Res, "runAgent", 404))
            /\ timer' = "done"
            /\ UNCHANGED pending
     ELSE IF ~mongoHasProjectAccess(tasks[moveReq.taskId].projectId, moveReq.userId)
       THEN /\ SetRes(Responds(Res, "runAgent", 403))
            /\ timer' = "done"
            /\ UNCHANGED pending
     ELSE /\ \E tokensUsed \in TokensUsed :
               pending' = pending \cup
                 {[Pending("runAgent", moveReq.taskId, NoId, NoData, 0,
                           tasks[moveReq.taskId].agentHistory,
                           <<HistoryEntry(moveColumn.settings.autoRunAgent, "run",
                                          moveReq.userId)>>)
                     EXCEPT !.actualTokensUsed =
                              tasks[moveReq.taskId].actualTokensUsed + tokensUsed]}
          /\ timer' = "running"
          /\ UNCHANGED <<resWrites, sentResponses, unhandled>>
  /\ UNCHANGED <<MoveUnchanged, tasks, moveReq, movePc, moveColumn>>

\* runAgent from its updateTask on: the task is updated and runAgent answers
\* on the response object it was given.
AutoRunFinish ==
  /\ timer = "running"
  /\ \E f \in PendingOf("runAgent") :
       LET r == updateTask(f.taskId, RunAgentUpdates(f)) IN
         /\ tasks' = r.tasks
         /\ pending' = pending \ {f}
         /\ SetRes(Responds(Res, "runAgent", IF r.value = "null" THEN 500 ELSE 200))
  /\ timer' = "done"
  /\ UNCHANGED <<MoveUnchanged, moveReq, movePc, moveColumn>>

\* One move request by "u1", an editor or a viewer of project p1, for a task
\* of p1 or an unknown task, to a column of p1, of p2 or to no column, with
\* or without a position; column c1 has any of the auto-run settings.
\* Meanwhile other callers delete tasks.
InitMove ==
  /\ organizations = [o \in OrgIds |-> Organization(TRUE, "member")]
  /\ \E role \in {"editor", "viewer"} :
       projects = [p \in ProjectIds |-> Project(TRUE, "team", role)]
  /\ columns = [c \in ColumnIds |->
                  IF c = "c1" THEN Column("p1", "public", "u2", "Backlog", "backlog")
                  ELSE Column("p2", "public", "u2", "Done", "done")]
  /\ tasks = [t \in TaskIds |-> IF t = "t1" THEN Task("p1", "c1", 0)
                                ELSE IF t = "t2" THEN Task("p1", "c1", 1)
                                ELSE AbsentTask]
  /\ agents = [g \in AgentIds |-> Agent(TRUE, FALSE)]
  /\ authz = NoCheck
  /\ AssistantIdle
  /\ IntentIdle /\ TasksIdle /\ RolesIdle /\ ResolveIdle /\ McpIdle
  /\ \E taskId \in {"t1", GhostId}, columnId \in {"c1", "c2", GhostId, BadId},
        hasPosition \in BOOLEAN :
       moveReq = MoveRequest("u1", taskId, columnId, hasPosition,
                             IF hasPosition THEN 3 ELSE 0)
  /\ movePc = "middleware"
  /\ moveColumn = NoMoveColumn
  /\ \E autoRun \in BOOLEAN, autoRunAgent \in AgentIds \cup {NoId} :
       columnSettings = [c \in ColumnIds |->
                           IF c = "c1" THEN [autoRun |-> autoRun, autoRunAgent |-> autoRunAgent]
                           ELSE NoAutoRun]
  /\ timer = "none"
  /\ resWrites = <<>>
  /\ sentResponses = <<>>
  /\ unhandled = 0

NextMove ==
  \/ MoveTaskMiddleware
  \/ MoveTaskGetColumn
  \/ MoveTaskUpdate
  \/ TimerFires
  \/ AutoRunFinish
  \/ DeleteTaskCall

SpecMove == InitMove /\ [][NextMove]_vars

(***************************************************************************)
(* Properties of the access checks.                                        *)
(***************************************************************************)
ProjectScopedChecks == {"requireProjectAccess", "requireTaskAccess", "requireColumnAccess",
                        "hasProjectAccess", "hasTaskAccess", "hasColumnAccess"}

\* The project the checked project, task or column belongs to, NoId when the
\* id names nothing in the store.
CheckedProject ==
  IF authz.check \in {"requireProjectAccess", "hasProjectAccess"} /\ authz.id \in ProjectIds
    THEN authz.id
  ELSE IF authz.check \in {"requireTaskAccess", "hasTaskAccess"} /\ authz.id \in TaskIds
    THEN tasks[authz.id].projectId
  ELSE IF authz.check \in {"requireColumnAccess", "hasColumnAccess"} /\ authz.id \in ColumnIds
    THEN columns[authz.id].projectId
  ELSE NoId

InMemberList(members, userId) == userId \in DOMAIN members /\ members[userId] # NoRole

\* C1: whatever the caller's organization role, owner included, the access
\* check of a private project, and of a task or column of a private project,
\* denies a caller who is not in the project's member list.
C1_PrivateProjectDeniesNonMembers ==
  \A p \in ProjectIds :
    ( /\ authz.check \in ProjectScopedChecks
      /\ CheckedProject = p
      /\ projects[p].visibility = "private"
      /\ ~InMemberList(projects[p].members, authz.userId) )
    => ~authz.allowed

\* An owner of the organization asked for a task of an existing private
\* project they are no member of, and was refused with 403.
C1_Witness ==
  /\ authz.check = "requireTaskAccess"
  /\ authz.id = "t1"
  /\ projects["p1"].isActive
  /\ projects["p1"].visibility = "private"
  /\ ~InMemberList(projects["p1"].members, authz.userId)
  /\ organizations["o1"].isActive
  /\ FindMember(organizations["o1"].members, authz.userId) = "owner"
  /\ ~authz.allowed
  /\ authz.status = 403

\* The role a project-scoped check compares with requiredRoles: the caller's
\* role in the project's member list, "viewer" for a caller not in it.
EffectiveRole(p, userId) ==
  IF InMemberList(projects[p].members, userId) THEN projects[p].members[userId] ELSE "viewer"

MemberOfAgentOrganization(g, userId) ==
  /\ organizations[agents[g].organizationId].isActive
  /\ InMemberList(organizations[agents[g].organizationId].members, userId)

\* C3: the agent access check of an existing agent, for an authenticated
\* caller: a public agent is allowed to everyone, member of the organization
\* or not; a non-public agent is allowed exactly when the caller is a member
\* of the agent's organization and requiredRoles is empty or contains the
\* caller's organization role.
C3_AgentAccess ==
  \A g \in AgentIds :
    ( /\ authz.check \in {"requireAgentAccess", "hasAgentAccess"}
      /\ authz.id = g
      /\ agents[g].isActive
      /\ authz.userId # NoUser )
    => IF agents[g].isPublic
         THEN authz.allowed
         ELSE authz.allowed <=>
                /\ MemberOfAgentOrganization(g, authz.userId)
                /\ \/ authz.requiredRoles = {}
                   \/ FindMember(organizations[agents[g].organizationId].members,
                                 authz.userId) \in authz.requiredRoles

\* A caller who is no member of the organization was allowed a public agent
\* by the middleware although requiredRoles was {owner, admin}.
C3_Witness ==
  /\ authz.check = "requireAgentAccess"
  /\ authz.id = "a1"
  /\ agents["a1"].isActive
  /\ agents["a1"].isPublic
  /\ authz.userId # NoUser
  /\ ~InMemberList(organizations["o1"].members, authz.userId)
  /\ authz.requiredRoles = {"owner", "admin"}
  /\ authz.allowed

(***************************************************************************)
(* Properties of the assistant endpoint.                                   *)
(***************************************************************************)
\* The caller of the request passes the access check of project p.
CallerPassesAccessCheck(p) ==
  p \in ProjectIds /\ hasProjectAccess(p, req.user, {}).hasAccess

\* C4: every task and column a tool call of the request updates, moves or
\* deletes belongs to the project the request was authorized for, or to a
\* project for which the caller passes the access check.
C4_ToolChangesStayInAuthorizedProjects ==
  [][ /\ \A t \in TaskIds :
           tasks'[t] # tasks[t]
             => \/ tasks[t].projectId = req.projectId
                \/ CallerPassesAccessCheck(tasks[t].projectId)
      /\ \A c \in ColumnIds :
           columns'[c] # columns[c]
             => \/ columns[c].projectId = req.projectId
                \/ CallerPassesAccessCheck(columns[c].projectId) ]_vars

\* The request ended with the answer of authenticateUser (401), of the access
\* check on body.projectId (400, 403, 404) or of the body validation (400).
\* The 403 "Insufficient permissions" is the answer to a provider error.
EndedWithAuthorizationOrValidationFailure ==
  /\ response.status \in {400, 401, 403, 404}
  /\ response.error # "Insufficient permissions"

StoreAsBeforeTheRequest == tasks = snapshot.tasks /\ columns = snapshot.columns

\* C5: a request answered with an authorization failure (unauthenticated,
\* forbidden, not found) or a validation failure has made no provider call,
\* has executed no tool and has left the store as it was before the request.
C5_RejectionIsAtomic ==
  EndedWithAuthorizationOrValidationFailure
    => /\ providerCalls = 0
       /\ execLog = <<>>
       /\ running = {}
       /\ StoreAsBeforeTheRequest

\* An authenticated user asked, with a valid body and tools enabled, for a
\* private project they are no member of: 403, and nothing happened.
C5_Witness ==
  /\ pc = "done"
  /\ req.token = "valid"
  /\ req.user = "u1"
  /\ req.projectId = "p2"
  /\ req.bodyValid
  /\ req.enableTools
  /\ response.status = 403
  /\ providerCalls = 0
  /\ execLog = <<>>
  /\ StoreAsBeforeTheRequest

\* C6: executeTool returns a result and never throws: for a name that is not
\* registered, success false and the error "Tool '<name>' not found"; for a
\* registered tool that throws, success false and the exception's message as
\* error; for a registered tool that returns v, success true and data v.
C6_ExecuteToolNeverThrows ==
  \A k \in 1..Len(execLog) :
    LET e == execLog[k] IN
      /\ ~e.threw
      /\ e.name \notin ToolNames
           => ~e.success /\ e.error = "Tool '" \o e.name \o "' not found"
      /\ e.name = "delete_everything"
           => e.error = "Tool 'delete_everything' not found"
      /\ (e.name \in ToolNames /\ e.toolThrew)
           => ~e.success /\ e.error = e.toolMessage
      /\ (e.name \in ToolNames /\ ~e.toolThrew)
           => e.success /\ e.data = e.toolValue

\* One request executed a call of an unregistered tool and a call of a
\* registered tool that threw.
C6_Witness ==
  /\ Len(execLog) = 2
  /\ \E j, k \in 1..Len(execLog) :
       /\ execLog[j].name \notin ToolNames
       /\ ~execLog[j].success
       /\ execLog[k].name \in ToolNames
       /\ execLog[k].toolThrew
       /\ ~execLog[k].success
       /\ execLog[k].error = execLog[k].toolMessage

\* C7: when an executed tool call fails the request still ends with HTTP 200
\* and success true, and the toolResults entry of the call records the
\* failure: success false, with the error.
C7_FailedToolCallIsRecorded ==
  ( /\ pc = "done"
    /\ req.enableTools
    /\ \E k \in 1..Len(execLog) : ~execLog[k].success )
  => /\ response.status = 200
     /\ response.success
     /\ Len(response.toolResults) = Len(execLog)
     /\ \A k \in 1..Len(execLog) :
          ~execLog[k].success
            => /\ response.toolResults[k].tool = execLog[k].name
               /\ ~response.toolResults[k].success
               /\ response.toolResults[k].error = execLog[k].error

\* The completion call failed with a timeout or a server error: neither a
\* rate-limit nor a permission error.
ProviderFailedOtherwise ==
  /\ pc = "done"
  /\ providerError # ""
  /\ ~IncludesRateLimit(providerError)
  /\ ~IncludesInsufficientPermissions(providerError)

Executable(i) == proposed[i].type = "function" /\ proposed[i].jsonOk

\* C9: at most one tool call runs at a time; a call runs only when every
\* executable call listed before it has finished; calls finish in the order
\* the provider listed them; and toolResults names the executed calls in
\* that order.
C9_SequentialInProviderOrder ==
  /\ Cardinality(running) <= 1
  /\ \A i \in running :
       \A j \in 1..(i - 1) :
         Executable(j) => \E k \in 1..Len(execLog) : execLog[k].call = j
  /\ \A j, k \in 1..Len(execLog) : j < k => execLog[j].call < execLog[k].call
  /\ (pc = "done" /\ response.status = 200 /\ req.enableTools)
       => /\ {execLog[k].call : k \in 1..Len(execLog)}
               = {i \in 1..Len(proposed) : Executable(i)}
          /\ Len(response.toolResults) = Len(execLog)
          /\ \A k \in 1..Len(execLog) :
               response.toolResults[k].tool = proposed[execLog[k].call].name

\* Two calls of different tools were executed and the response names them in
\* the order the provider listed them.
C9_Witness ==
  /\ pc = "done"
  /\ Len(proposed) = 2
  /\ Len(execLog) = 2
  /\ proposed[1].name # proposed[2].name
  /\ execLog[1].call = 1
  /\ execLog[2].call = 2
  /\ response.toolResults[1].tool = proposed[1].name
  /\ response.toolResults[2].tool = proposed[2].name

\* The proposed call at position i has arguments that are not valid JSON.
Malformed(i) == proposed[i].type = "function" /\ ~proposed[i].jsonOk

\* The provider proposed tool calls and the request is over.
AnsweredAfterProposals == pc = "done" /\ proposed # <<>>

\* A call with malformed arguments is never executed; once the request is
\* over every other function call of the response was executed, and the
\* request ended with HTTP 200.
C10_SkippedNotAborted ==
  /\ \A i \in 1..Len(proposed) :
       Malformed(i) => /\ i \notin running
                       /\ \A k \in 1..Len(execLog) : execLog[k].call # i
  /\ AnsweredAfterProposals
       => /\ response.status = 200 /\ response.success
          /\ req.enableTools
               => \A i \in 1..Len(proposed) :
                    Executable(i) => \E k \in 1..Len(execLog) : execLog[k].call = i

\* The step that passes over a call with malformed arguments leaves the
\* store as it is.
C10_SkipChangesNothing ==
  ( /\ pc = "tools"
    /\ idx <= Len(proposed)
    /\ Malformed(idx)
    /\ idx' # idx )
  => UNCHANGED <<tasks, columns>>

\* C10: a tool call whose arguments are not valid JSON is not executed and
\* changes nothing in the store; every other tool call of the same provider
\* response is still executed; the request is not aborted.
C10_MalformedCallIsSkipped == []C10_SkippedNotAborted /\ [][C10_SkipChangesNothing]_vars

\* A response listed a malformed call first and an executable call second;
\* only the second was executed and the request ended with 200.
C10_Witness ==
  /\ pc = "done"
  /\ req.enableTools
  /\ Len(proposed) = 2
  /\ Malformed(1)
  /\ Executable(2)
  /\ Len(execLog) = 1
  /\ execLog[1].call = 2
  /\ response.status = 200

(***************************************************************************)
(* Properties of intent classification.                                    *)
(***************************************************************************)
\* analyzeIntent has been called and has come back.
IntentAnalysed == analysis # NoAnalysis

\* The provider call threw, timed out, returned no content or returned
\* content that is not the requested JSON (not JSON at all, or JSON without
\* the intent object or the entities array).
IntentProviderFailed ==
  \/ intentCall.outcome.kind \in {"throws", "timeout", "no_content", "not_json"}
  \/ intentCall.outcome.kind = "json"
       /\ (~intentCall.outcome.hasIntent \/ ~intentCall.outcome.hasEntities)

\* C11: analyzeIntent never raises an error to its caller; whenever the
\* provider call throws, times out, returns no content or returns content
\* that is not the requested JSON, what it returns is the result of the
\* keyword fallback on the request's input.
C11_IntentNeverFails ==
  IntentAnalysed
    => /\ ~analysis.threw
       /\ IntentProviderFailed
            => analysis.fallback /\ analysis = getFallbackIntent(intentCall.input)

OnboardingInput == <<"c", "r", "e", "a", "t", "e", " ", "t", "a", "s", "k", " ", "f", "o", "r", " ", "o", "n", "b", "o", "a", "r", "d", "i", "n", "g">>

\* The provider call timed out for "create task for onboarding" and the
\* caller got the fallback's task_creation.
C11_Witness ==
  /\ IntentAnalysed
  /\ intentCall.outcome.kind = "timeout"
  /\ intentCall.input = OnboardingInput
  /\ ~analysis.threw
  /\ analysis.fallback
  /\ analysis.primary = "task_creation"

\* The input, lower-cased, contains a phrase of the table.
ContainsPhraseOf(table) ==
  \E keyword \in table : includes(textToLowerCase(intentCall.input), keyword)

ContainsSomePhrase ==
  \/ ContainsPhraseOf(CreateTaskKeywords)
  \/ ContainsPhraseOf(TaskManagementKeywords)
  \/ ContainsPhraseOf(AgentKeywords)
  \/ ContainsPhraseOf(ProjectKeywords)
  \/ ContainsPhraseOf(AgentUseKeywords)

\* C12 as stated: the fallback returns confidence 0.6 whenever the input
\* contains a phrase of the keyword table, whatever the intent, and
\* general_answer with 0.3 when it contains none; "create task for
\* onboarding" gives task_creation with 0.6.
C12_FallbackConfidenceIsPointSix ==
  (IntentAnalysed /\ analysis.fallback)
    => /\ ContainsSomePhrase => analysis.confidence = 6
       /\ ~ContainsSomePhrase
            => analysis.primary = "general_answer" /\ analysis.confidence = 3
       /\ intentCall.input = OnboardingInput
            => analysis.primary = "task_creation" /\ analysis.confidence = 6

\* C12: the fallback tries the tables in the order task_creation,
\* task_management, agent_assignment, project_management, agent_use and
\* returns the first intent with a phrase in the input, with confidence 0.6,
\* except project_management, which gets 0.5; with no phrase it returns
\* general_answer with 0.3; "create task for onboarding" gives
\* task_creation with 0.6.
C12_FallbackFirstMatchWins ==
  (IntentAnalysed /\ analysis.fallback)
    => /\ analysis.primary =
            IF ContainsPhraseOf(CreateTaskKeywords) THEN "task_creation"
            ELSE IF ContainsPhraseOf(TaskManagementKeywords) THEN "task_management"
            ELSE IF ContainsPhraseOf(AgentKeywords) THEN "agent_assignment"
            ELSE IF ContainsPhraseOf(ProjectKeywords) THEN "project_management"
            ELSE IF ContainsPhraseOf(AgentUseKeywords) THEN "agent_use"
            ELSE "general_answer"
       /\ analysis.confidence =
            IF analysis.primary = "general_answer" THEN 3
            ELSE IF analysis.primary = "project_management" THEN 5
            ELSE 6
       /\ intentCall.input = OnboardingInput
            => analysis.primary = "task_creation" /\ analysis.confidence = 6

\* The fallback classified "create column, run agent", an input with a
\* project phrase and an agent-use phrase, as project_management with 0.5.
C12_Witness ==
  /\ IntentAnalysed
  /\ analysis.fallback
  /\ ContainsPhraseOf(ProjectKeywords)
  /\ ContainsPhraseOf(AgentUseKeywords)
  /\ analysis.primary = "project_management"
  /\ analysis.confidence = 5

\* The fixed mapping from primary intent to response type.
ResponseTypeOf(primary) ==
  IF primary \in {"task_creation", "task_management", "agent_assignment", "project_management"}
    THEN primary
  ELSE IF primary = "agent_use" THEN "tool_execution"
  ELSE IF primary = "error" THEN "error"
  ELSE "general_answer"

RequestSucceeded == pc = "done" /\ response.status = 200 /\ response.success

\* C13 as stated: whether tools are enabled or not, the type of a
\* successful response is the image of the classified intent.
C13_TypeIsImageOfIntent ==
  RequestSucceeded => response.type = ResponseTypeOf(intent)

\* C13: with tool execution enabled the type of a successful response is
\* the image of the classified primary intent under the fixed mapping; with
\* tool execution disabled the type is general_answer whatever the intent.
C13_TypeIsImageOfIntentWithTools ==
  RequestSucceeded
    => response.type = IF req.enableTools THEN ResponseTypeOf(intent) ELSE "general_answer"

\* A request classified agent_use succeeded with tools enabled and has type
\* tool_execution.
C13_Witness ==
  /\ RequestSucceeded
  /\ req.enableTools
  /\ intent = "agent_use"
  /\ response.type = "tool_execution"

(***************************************************************************)
(* Properties of the task store.                                           *)
(***************************************************************************)
\* The step is the insert of a createTask that no other operation overlapped:
\* the store is the one its position read saw.
CreateCompletesAlone ==
  /\ lastStep.op = "createTask:read"
  /\ lastStep'.op = "createTask" /\ lastStep'.result = "task"
  /\ lastStep'.taskId = lastStep.taskId
  /\ ~overlapped'

\* C14: a createTask into a column whose tasks have maximum position p stores
\* the new task with position p+1, and into a column with no tasks with
\* position 0, whatever position the caller supplied (stated for a createTask
\* that runs alone).
C14_CreateStoresNextPositionOfColumn ==
  [][CreateCompletesAlone =>
       tasks'[lastStep'.taskId].position =
         IF TasksOfColumn(lastStep'.columnId) = {} THEN 0
         ELSE MaxPosition(lastStep'.columnId) + 1]_vars

\* Two tasks of one project and one column share their position.
SharePosition(t, u) ==
  /\ t # u /\ tasks[t].exists /\ tasks[u].exists
  /\ tasks[t].projectId = tasks[u].projectId
  /\ tasks[t].columnId = tasks[u].columnId
  /\ tasks[t].position = tasks[u].position

\* C15: after any sequence of task operations that do not overlap in time
\* (create, update, move with or without a position, delete), no two tasks
\* with the same projectId and columnId have the same position.
C15_PositionsUniqueWithoutOverlap ==
  (~overlapped /\ pending = {}) => \A t, u \in TaskIds : ~SharePosition(t, u)

\* The step is the insert of the running createTask f.
Inserts(f) == f \in pending /\ f.op = "createTask" /\ f \notin pending'

\* C16: the read of the maximum position and the insert are separate steps
\* with no lock or transaction around them: whatever was stored since the
\* read, the insert stores the position computed from the read, so two
\* overlapping createTask on one column can both store the same position.
C16_InsertStoresThePositionReadEarlier ==
  [][\A f \in pending :
       Inserts(f) => /\ tasks'[f.taskId].exists
                     /\ tasks'[f.taskId].position = f.position
                     /\ \A t \in TaskIds \ {f.taskId} : tasks'[t] = tasks[t]]_vars

\* Two createTask on one column overlapped, and the two tasks they stored
\* share their position.
C16_Witness ==
  /\ started = 2 /\ pending = {} /\ overlapped
  /\ lastStep.op = "createTask"
  /\ SharePosition(NewTaskIds[1], NewTaskIds[2])

\* The step is a call moveTask(taskId, columnId, position) on a stored task.
MovedWithPosition(step) ==
  step.op = "moveTask" /\ step.hasPosition /\ step.result = "task"

CreateReturned == lastStep.op = "createTask" /\ lastStep.result = "task"
Created == documentToTask(tasks[lastStep.taskId])

C19_DeleteColumnLeavesNoTaskOfTheColumn ==
  (lastStep.op = "deleteColumn") =>
    /\ getColumn(lastStep.columnId) = "null"
    /\ TasksOfColumn(lastStep.columnId) = {}

\* s is the beginning of t.
IsPrefix(s, t) == Len(s) <= Len(t) /\ \A i \in 1..Len(s) : s[i] = t[i]

\* C20: for every task, across any sequence and interleaving of agent
\* assignments, agent runs and task updates, each new value of agentHistory
\* keeps all earlier entries unchanged and in order and only adds entries at
\* the end.
C20_AgentHistoryIsAppendOnly ==
  [][\A t \in TaskIds :
       (tasks[t].exists /\ tasks'[t].exists) =>
          IsPrefix(tasks[t].agentHistory, tasks'[t].agentHistory)]_vars

\* C21: for every task, across any sequence and interleaving of agent runs
\* and task updates, each stored value of actualTokensUsed is greater than or
\* equal to the value stored before it.
C21_ActualTokensUsedNeverDecreases ==
  [][\A t \in TaskIds :
       (tasks[t].exists /\ tasks'[t].exists) =>
          tasks'[t].actualTokensUsed >= tasks[t].actualTokensUsed]_vars

(***************************************************************************)
(* Properties of the role hierarchy.                                       *)
(***************************************************************************)
InHierarchy(name) == \E i \in 1..Len(getRoleHierarchy) : getRoleHierarchy[i] = name
\* The place of a role of the list [viewer, member, editor, admin, owner].
Rank(name) == CHOOSE i \in 1..Len(getRoleHierarchy) : getRoleHierarchy[i] = name

\* C23: hasMinimumRole(a, b) is true if and only if a and b are both in the
\* list [viewer, member, editor, admin, owner] and index(a) >= index(b); when
\* either is not in the list it returns false and does not throw.
C23_HasMinimumRoleFollowsTheHierarchy ==
  /\ roleResult \in {"none", "true", "false"}
  /\ roleResult # "none" =>
       (roleResult = "true" <=>
          /\ InHierarchy(roleCall.userRole) /\ InHierarchy(roleCall.minimumRole)
          /\ Rank(roleCall.userRole) >= Rank(roleCall.minimumRole))
  /\ <<"viewer", "member", "editor", "admin", "owner">> = getRoleHierarchy

\* hasMinimumRole returned for a name that is not a role of the list.
C23_Witness ==
  /\ roleResult = "false"
  /\ roleCall.userRole = "superuser" /\ roleCall.minimumRole = "Owner"

(***************************************************************************)
(* Properties of the column resolution of create_task and move_task.       *)
(***************************************************************************)
\* The tools change no column, so the columns are those the call saw.
ProjectColumns == {c \in ColumnIds : columns[c].exists /\ columns[c].projectId = "p1"}
FirstByPosition(cs) == CHOOSE c \in cs : \A d \in cs : columns[c].position <= columns[d].position

\* Columns whose name or title equals the name asked for, case-insensitively
EqualName(asked) ==
  {c \in ProjectColumns : \/ LowerChars(columns[c].name) = LowerChars(asked)
                          \/ LowerChars(columns[c].title) = LowerChars(asked)}

\* Columns whose name or title contains the phrase
Containing(phrase) ==
  {c \in ProjectColumns : \/ includes(LowerChars(columns[c].name), phrase)
                          \/ includes(LowerChars(columns[c].title), phrase)}

\* The phrases of a table some column contains, by their place in the table
Matched(table) == {k \in 1..Len(table) : Containing(table[k]) # {}}
FirstMatched(table) == table[CHOOSE k \in Matched(table) : \A j \in Matched(table) : k <= j]

\* The column the priority list gives for a call without a column id:
\* equal name, then the status's phrase table, then the generic patterns,
\* then the first column; NoId when the project has no column.
ByPriority(params) ==
  IF params.columnName # NoId /\ EqualName(params.columnName) # {}
    THEN FirstByPosition(EqualName(params.columnName))
  ELSE IF params.status # NoId /\ Matched(defaultMappings(params.status)) # {}
    THEN FirstByPosition(Containing(FirstMatched(defaultMappings(params.status))))
  ELSE IF Matched(commonPatterns) # {}
    THEN FirstByPosition(Containing(FirstMatched(commonPatterns)))
  ELSE IF ProjectColumns # {} THEN FirstByPosition(ProjectColumns)
  ELSE NoId

\* The column move_task finds: the one with an equal name, or none.
ByNameOnly(params) ==
  IF params.columnName # NoId /\ EqualName(params.columnName) # {}
    THEN FirstByPosition(EqualName(params.columnName))
  ELSE NoId

ToolReturned == toolOutcome # NoToolOutcome
WithoutColumnId == toolRequest.params.columnId = NoId
NothingCreatedOrMoved ==
  tasks = [t \in TaskIds |-> IF t = "t1" THEN Task("p1", "c1", 0) ELSE AbsentTask]

\* What the call of the tool made of the column c: the task created in it,
\* or task t1 moved to it.
CreatedIn(c) ==
  /\ ~toolOutcome.threw
  /\ tasks[NewTaskIds[1]].exists /\ tasks[NewTaskIds[1]].columnId = c
  /\ tasks["t1"] = Task("p1", "c1", 0)
MovedTo(c) ==
  /\ ~toolOutcome.threw
  /\ tasks["t1"].exists /\ tasks["t1"].columnId = c
  /\ ~tasks[NewTaskIds[1]].exists

FailsWith(msg) == toolOutcome.threw /\ toolOutcome.message = msg /\ NothingCreatedOrMoved

\* create_task without a column id follows the priority list and fails
\* exactly when the project has no column.
CreateFollowsPriority ==
  (ToolReturned /\ WithoutColumnId /\ toolRequest.toolName = "create_task") =>
    IF ProjectColumns = {}
      THEN FailsWith("No columns found in project. Create columns first.")
      ELSE CreatedIn(ByPriority(toolRequest.params))

\* C22 as stated: create_task and move_task called without a column id both
\* resolve the column by the priority list (equal name, status phrase table,
\* generic patterns, first column) and fail with "No columns found in
\* project." exactly when the project has no column, changing nothing then.
C22_ColumnResolvedByPriority ==
  /\ CreateFollowsPriority
  /\ (ToolReturned /\ WithoutColumnId /\ toolRequest.toolName = "move_task") =>
       IF ProjectColumns = {}
         THEN toolOutcome.threw /\ NothingCreatedOrMoved
         ELSE MovedTo(ByPriority(toolRequest.params))

\* C22: create_task without a column id resolves the column by the priority
\* list and fails with "No columns found in project. Create columns first."
\* exactly when the project has no column; move_task without a column id
\* takes only a column with an equal name and fails with "Target column not
\* found", moving nothing, when no name is given or no column has it.
C22_CreateByPriorityMoveByNameOnly ==
  /\ CreateFollowsPriority
  /\ (ToolReturned /\ WithoutColumnId /\ toolRequest.toolName = "move_task") =>
       IF ByNameOnly(toolRequest.params) = NoId
         THEN FailsWith("Target column not found")
         ELSE MovedTo(ByNameOnly(toolRequest.params))

\* create_task with a status and no column took the column of the status's
\* phrase table although another column comes first and matches a generic
\* pattern.
C22_Witness ==
  /\ ToolReturned /\ WithoutColumnId
  /\ toolRequest.toolName = "create_task"
  /\ toolRequest.params.columnName = NoId /\ toolRequest.params.status = "in_progress"
  /\ columns["c1"].exists /\ columns["c1"].title = "Backlog" /\ columns["c1"].position = 0
  /\ columns["c2"].exists /\ columns["c2"].title = "In Progress"
  /\ CreatedIn("c2")

(***************************************************************************)
(* Properties of the organizations collection.                             *)
(***************************************************************************)
\* C24: in every reachable state, under any sequence and interleaving of
\* createOrganization and deleteOrganization calls, no two active
\* organizations have the same slug.
C24_ActiveSlugsAreUnique ==
  \A a, b \in OrgDocIdSet :
    (a # b /\ organizations[a].exists /\ organizations[b].exists
       /\ organizations[a].isActive /\ organizations[b].isActive)
      => organizations[a].slug # organizations[b].slug

(***************************************************************************)
(* Properties of the MCP client.                                           *)
(***************************************************************************)
\* C25: after an MCP client is constructed and its server process runs and
\* answers, the client eventually becomes connected (unless the process ends
\* or the client is disconnected first), so that later sendRequest calls are
\* written to the server and not rejected.
C25_RunningServerLeadsToConnected ==
  (mcpProcess = "running") ~> (connected \/ mcpProcess # "running")

\* The phases of a request in the order of processAIRequest behind its
\* middlewares; the aggregation and the response are the last step.
PhaseOrder ==
  <<"authenticate", "authorize", "validate", "intent", "provider", "tools", "done">>
PhaseRank(phase) == CHOOSE k \in 1..Len(PhaseOrder) : PhaseOrder[k] = phase
\* The intent of the request was classified.
Classified == intent # ""

\* C26: an authorized, valid assistant request goes through authorization,
\* intent classification, provider call, tool executions, aggregation and
\* response in this order: every step either goes on to the next phase or
\* ends the request; the intent is classified in every request that reaches
\* the provider, with tools enabled or not, before the provider is asked
\* for tool calls; tools are executed only after the provider answered, and
\* the 200 response is sent from the tool phase, when no tool is running.
C26_PhasesInOrder ==
  [][/\ pc' # pc => \/ PhaseRank(pc') = PhaseRank(pc) + 1
                     \/ pc' = "done"
     /\ pc' = "provider" => pc = "intent" /\ Classified'
     /\ pc \in {"provider", "tools"} => Classified /\ intent' = intent
     /\ proposed' # proposed => pc = "provider" /\ Classified
     /\ execLog' # execLog => pc = "tools" /\ pc' = "tools"
     /\ response'.status = 200 /\ response.status # 200
          => pc = "tools" /\ running = {} /\ Classified]_vars
\* A request with tools went through every phase and executed a tool.
C26_Witness ==
  /\ pc = "done" /\ response.status = 200 /\ req.enableTools
  /\ Classified /\ execLog # <<>> /\ authz.allowed

\* The proposed tool calls that were executed, by their place in tool_calls.
ExecutedCalls(log) == {log[k].call : k \in DOMAIN log}

\* C27: within one assistant request each proposed tool call is executed at
\* most once: a call is started only if it was neither started nor executed
\* before, and every execution is of a call that was not executed before,
\* so a failed call is never executed again; a call that fails leaves the
\* store as the calls before it made it, and no step other than a tool
\* execution changes the store, so the changes of the calls that succeeded
\* stay in place.
C27_NoRetryNoRollback ==
  [][/\ \A i \in running' \ running : i \notin ExecutedCalls(execLog)
     /\ execLog' # execLog
          => /\ Len(execLog') = Len(execLog) + 1
             /\ SubSeq(execLog', 1, Len(execLog)) = execLog
             /\ execLog'[Len(execLog')].call \in running
             /\ execLog'[Len(execLog')].call \notin ExecutedCalls(execLog) \cup running'
             /\ ~execLog'[Len(execLog')].success
                  => tasks' = tasks /\ columns' = columns
     /\ execLog' = execLog => tasks' = tasks /\ columns' = columns]_vars
\* A request whose first call changed the store and whose second call
\* failed was answered, and the change of the first call is in the store.
C27_Witness ==
  /\ pc = "done" /\ Len(execLog) = 2
  /\ execLog[1].success /\ ~execLog[2].success
  /\ tasks # snapshot.tasks

\* The project-membership role of the caller of the assistant request in a
\* project is owner or editor.
CallerMayEdit(projectId) ==
  /\ projectId \in ProjectIds
  /\ FindMember(projects[projectId].members, req.user) \in {"owner", "editor"}
\* The project of an entity that a step created, changed or deleted.
ProjectOfChanged(before, after) ==
  IF before.exists THEN before.projectId ELSE after.projectId

\* C28: every creation, update, move or deletion of a task or column of a
\* project is made on behalf of a caller whose project-membership role in
\* that project is owner or editor: a step of an assistant request that
\* changes a task or a column is made for such a caller.
C28_MutationsByOwnerOrEditor ==
  [][/\ \A t \in TaskIds :
          tasks'[t] # tasks[t] => CallerMayEdit(ProjectOfChanged(tasks[t], tasks'[t]))
     /\ \A c \in ColumnIds :
          columns'[c] # columns[c]
            => CallerMayEdit(ProjectOfChanged(columns[c], columns'[c]))]_vars

\* The column a stored task names exists and is of the task's project.
ColumnOfSameProject(task) ==
  /\ task.columnId \in ColumnIds
  /\ columns[task.columnId].exists
  /\ columns[task.columnId].projectId = task.projectId

\* C29: in every reachable state, also in those reached when createTask or
\* moveTask overlaps with deleteColumn, the columnId of every stored task
\* refers to a column that exists and belongs to the project of the task.
C29_TaskColumnExistsInSameProject ==
  \A t \in TaskIds : tasks[t].exists => ColumnOfSameProject(tasks[t])

\* C30: every request to the task move endpoint gets exactly one response:
\* res.json is called at most once on the response object of the request,
\* also when the target column has autoRun set with an autoRunAgent and
\* the agent run is triggered, and once the request is handled exactly one
\* response was written and sent.
C30_MoveGetsExactlyOneResponse ==
  /\ Len(resWrites) <= 1
  /\ Len(sentResponses) <= 1
  /\ movePc = "done" => Len(resWrites) = 1 /\ Len(sentResponses) = 1
====
